---- MODULE Spec2Model ----
(***************************************************************************)
(* State-machine model of the Freight execution engine                     *)
(* (src/src/execution_engine.rs): the engine's public operations run,      *)
(* register_function, create_global, call and the tree evaluator evaluate. *)
(*                                                                         *)
(* Values live in a heap of cells: a reference value names a cell, every   *)
(* handle duped from it names the same cell.  The embedder's value type,   *)
(* Function::call, FunctionWriter and OrReturn are not part of the three   *)
(* source files; they are modelled from the specification's contract.      *)
(* The model is the default build (feature variadic_functions off).        *)
(***************************************************************************)
EXTENDS Integers, Sequences, FiniteSets, TLC

VARIABLES
    functions,     \* ExecutionEngine.functions: the function table
    globals,       \* ExecutionEngine.globals: sequence of values
    num_globals,   \* ExecutionEngine.num_globals
    entry_point,   \* ExecutionEngine.entry_point
    stack_size,    \* ExecutionEngine.stack_size
    return_value,  \* ExecutionEngine.return_value
    heap,          \* the cells reference values point to (cell id = index)
    refs,          \* the FunctionRef handles register_function has issued
    last,          \* what the last run / call / evaluate did and returned
    evals,         \* number of evaluate calls the embedder has made
    context,       \* the ExecutionContext of the linear interpreter
    overflow_checks, \* whether the build panics on integer overflow
    history        \* the contexts ExecutionContext::run has gone through

context_vars == <<context, overflow_checks, history>>
vars == <<functions, globals, num_globals, entry_point, stack_size,
          return_value, heap, refs, last, evals, context, overflow_checks,
          history>>

----------------------------------------------------------------------------
(* Bounds of the model *)

\* functions registered after construction (by the embedder or a native)
MaxRegister == 1
\* global slots the engine holds at any time
MaxGlobals == 2
\* direct calls of evaluate in one behaviour of EvalSpec
MaxEvals == 1
\* the length of the instruction vectors built from the alphabet
MaxProgram == 2
\* the iterations of ExecutionContext::run that are followed
MaxSteps == 8

----------------------------------------------------------------------------
(* Values (TS::Value) and the heap of cells *)

Null == [k |-> "null"]
IntV(n) == [k |-> "int", n |-> n]
FnV(f) == [k |-> "fn", f |-> f]
ListV(items) == [k |-> "list", items |-> items]
RefV(c) == [k |-> "ref", c |-> c]

IsRef(v) == v.k = "ref"

\* the payload a value denotes: the cell's content for a reference
Payload(h, v) == IF IsRef(v) THEN h[v.c] ELSE v

\* a value together with the heap after producing it
HV(h, v) == [h |-> h, v |-> v]

\* a new cell holding payload p
Alloc(h, p) == HV(Append(h, p), RefV(Len(h) + 1))

\* Value::uninitialized_reference(): a reference to a new cell without value
uninitialized_reference(h) == Alloc(h, Null)

\* Default::default(): the raw value without content
DefaultValue == Null

\* Value::clone: an independent copy (a reference gets a cell of its own)
clone(h, v) == IF IsRef(v) THEN Alloc(h, h[v.c]) ELSE HV(h, v)

\* Value::dupe_ref: a handle sharing the cell
dupe_ref(v) == v

\* Value::into_ref: a reference-shaped value (a raw value moves into a cell)
into_ref(h, v) == IF IsRef(v) THEN HV(h, v) ELSE Alloc(h, v)

\* Value::assign on the value held in a slot: [h, v] is the heap and the
\* slot afterwards.  A reference's cell is overwritten, a raw slot replaced.
assign(h, slot, other) ==
    IF IsRef(slot)
    THEN HV([h EXCEPT ![slot.c] = Payload(h, other)], slot)
    ELSE HV(h, Payload(h, other))

\* Value::cast_to_function: TRUE when the value is a FunctionRef
IsFunction(h, v) == Payload(h, v).k = "fn"
cast_to_function(h, v) == Payload(h, v).f

\* args.push(Value::uninitialized_reference()) n times: n fresh cells appended to s
RECURSIVE PadUninit(_, _, _)
PadUninit(h, s, n) ==
    IF n <= 0 THEN [h |-> h, s |-> s]
    ELSE LET u == uninitialized_reference(h)
         IN  PadUninit(u.h, Append(s, u.v), n - 1)

\* BinaryOperator::apply_2 / UnaryOperator::apply_1 of the integer type system
apply_2(op, h, l, r) ==
    LET a == Payload(h, l)
        b == Payload(h, r)
    IN  IF a.k = "int" /\ b.k = "int" THEN IntV(a.n + b.n) ELSE Null

apply_1(op, h, v) ==
    LET a == Payload(h, v)
    IN  IF a.k = "int" THEN IntV(0 - a.n) ELSE Null

\* Initializer::initialize: the aggregate of the arguments' payloads
initialize(init, h, args) == ListV([i \in 1..Len(args) |-> Payload(h, args[i])])

----------------------------------------------------------------------------
(* ArgCount, FunctionRef, FunctionWriter, Function *)

Fixed(n) == [k |-> "Fixed", min |-> n, max |-> n]
Variadic(lo, hi) == [k |-> "Variadic", min |-> lo, max |-> hi]

valid_arg_count(ac, n) == ac.min <= n /\ n <= ac.max
max_capped(ac) == ac.max

Static == [k |-> "Static"]
CapturingDef(template) == [k |-> "CapturingDef", vars |-> template]
CapturingRef(slice) == [k |-> "CapturingRef", caps |-> slice]

\* a variable reference: kind is "Captured", "Stack" or "Global"
VarRef(kind, addr) == [kind |-> kind, addr |-> addr]

----------------------------------------------------------------------------
(* Expressions (the arms of Expression<TS>) *)

RawValue(v) == [arm |-> "RawValue", v |-> v]
Variable(kind, addr) == [arm |-> "Variable", var |-> VarRef(kind, addr)]
BinaryOpEval(op, l, r) == [arm |-> "BinaryOpEval", op |-> op, l |-> l, r |-> r]
UnaryOpEval(op, x) == [arm |-> "UnaryOpEval", op |-> op, x |-> x]
StaticFunctionCall(f, args) == [arm |-> "StaticFunctionCall", func |-> f, args |-> args]
DynamicFunctionCall(t, args) == [arm |-> "DynamicFunctionCall", func |-> t, args |-> args]
FunctionCapture(f) == [arm |-> "FunctionCapture", func |-> f]
AssignStack(addr, e) == [arm |-> "AssignStack", addr |-> addr, expr |-> e]
AssignGlobal(addr, e) == [arm |-> "AssignGlobal", addr |-> addr, expr |-> e]
AssignDynamic(t, v) == [arm |-> "AssignDynamic", target |-> t, value |-> v]
NativeFunctionCall(f, args) == [arm |-> "NativeFunctionCall", func |-> f, args |-> args]
Initialize(init, args) == [arm |-> "Initialize", init |-> init, args |-> args]
ReturnTarget(t, e) == [arm |-> "ReturnTarget", target |-> t, expr |-> e]
Return(t, e) == [arm |-> "Return", target |-> t, expr |-> e]

\* FunctionWriter: the function under construction
Writer(ac, vc, ft, exprs) ==
    [arg_count |-> ac, variable_count |-> vc, stack_size |-> ac.max + vc,
     function_type |-> ft, expressions |-> exprs]

\* FunctionWriter::to_ref(location)
to_ref(w, location) ==
    [location |-> location, arg_count |-> w.arg_count, stack_size |-> w.stack_size,
     variable_count |-> w.variable_count, function_type |-> w.function_type]

\* FunctionWriter::build(return_target): the body's final expression gets
\* the ReturnTarget wrapper with the given id
build(w, return_target) ==
    LET es == w.expressions
        n  == Len(es)
    IN  [expressions |->
            IF n = 0 THEN es
            ELSE [es EXCEPT ![n] = ReturnTarget(return_target, es[n])],
         stack_size |-> w.stack_size,
         arg_count |-> w.arg_count]

----------------------------------------------------------------------------
(* Errors (FreightError) and results *)

NoError == [k |-> "None"]
IncorrectArgumentCount(lo, hi, n) ==
    [k |-> "IncorrectArgumentCount", expected_min |-> lo, expected_max |-> hi,
     actual |-> n]
InvalidInvocationTarget == [k |-> "InvalidInvocationTarget"]
ReturnErr(t) == [k |-> "Return", target |-> t]
\* an error of the embedder's own, produced by a native function
HostError == [k |-> "Host"]
\* a Rust panic (index out of bounds); it is no FreightError and unwinds
\* through every frame
Panic == [k |-> "Panic"]
\* the outcome of reading a Function through a reference that a table
\* reallocation left dangling, when the read does not find the old bytes
Undefined == [k |-> "Undefined"]

\* an event of the evaluation's log
Ev(e, a) == [e |-> e, a |-> a]
Log(st, ev) == [st EXCEPT !.log = Append(@, ev)]

Ok(v, st, stack) == [ok |-> TRUE, val |-> v, err |-> NoError, st |-> st, stack |-> stack]
Err(e, st, stack) == [ok |-> FALSE, val |-> Null, err |-> e, st |-> st, stack |-> stack]
\* a fault raised by the engine itself, recorded in the log
Fault(e, st, stack) == Err(e, Log(st, [e |-> "fault", err |-> e]), stack)

----------------------------------------------------------------------------
(* The evaluation state threaded through evaluate: the engine's fields the *)
(* evaluator reaches through `engine`, and the record of what it did.      *)
(*   heap, globals, functions, return_value : the engine                   *)
(*   log     : the events of this evaluation, in order                     *)
(*   active  : ids of the ReturnTargets being evaluated, outermost first   *)
(*   frames  : the frames of the suspended callers                         *)
(*   closures: the capture slices FunctionCapture has built                *)
(*   ub      : whether a read through a dangling &Function goes wrong      *)

EngineState(h, g, f, rv, ub) ==
    [heap |-> h, globals |-> g, functions |-> f, return_value |-> rv,
     log |-> <<>>, active |-> <<>>, frames |-> <<>>, closures |-> <<>>, ub |-> ub]

Range(s) == {s[i] : i \in 1..Len(s)}

\* every capture slice that exists: those built in this evaluation and
\* those of the closures stored in cells
AllSlices(st) ==
    Range(st.closures) \cup
    {st.heap[c].f.function_type.caps :
        c \in {d \in 1..Len(st.heap) :
                 /\ st.heap[d].k = "fn"
                 /\ st.heap[d].f.function_type.k = "CapturingRef"}}

\* what a write to cell c is shared with, besides the written frame
AliasFrame(st, c) == \E i \in 1..Len(st.frames) : RefV(c) \in Range(st.frames[i])
AliasGlobal(st, c) == RefV(c) \in Range(st.globals)
AliasCaptured(st, c, captured) ==
    \/ RefV(c) \in Range(captured)
    \/ \E s \in AllSlices(st) : RefV(c) \in Range(s)

CellOf(v) == IF IsRef(v) THEN v.c ELSE 0

\* the payload seen through handle v, recorded in the log
Observe(st, v) ==
    IF IsRef(v) THEN Log(st, [e |-> "observe", c |-> v.c, p |-> st.heap[v.c]])
    ELSE st

\* get_function: the table is indexed from 0
HasFunction(fs, id) == id >= 0 /\ id < Len(fs)
get_function(fs, id) == fs[id + 1]

\* register_function handing out the table length after the push: the
\* variant the stability property C6_FunctionIdsStable has to tell apart
\* from register_function
register_function_after_push(fs, w, return_target) ==
    [functions |-> Append(fs, build(w, return_target)),
     ref |-> to_ref(w, Len(fs) + 1)]

\* register_function: the handle and the table after the push
register_function(fs, w, return_target) ==
    [functions |-> Append(fs, build(w, return_target)),
     ref |-> to_ref(w, Len(fs))]

\* the function a native function of the embedder registers
NativeWriter == Writer(Fixed(0), 0, Static, <<RawValue(IntV(42))>>)

\* OrReturn::or_return: a Return with this target is intercepted and
\* engine.return_value delivered; anything else passes through
or_return(r, target) ==
    IF ~r.ok /\ r.err = ReturnErr(target)
    THEN Ok(r.st.return_value,
            Log(r.st, [e |-> "catch", a |-> target,
                       p |-> Payload(r.st.heap, r.st.return_value)]),
            r.stack)
    ELSE r

\* the slots a VariableType addresses
Slots(var, st, stack, captured) ==
    CASE var.kind = "Captured" -> captured
      [] var.kind = "Stack" -> stack
      [] var.kind = "Global" -> st.globals

InRange(addr, s) == addr >= 0 /\ addr < Len(s)

\* an argument bound without the clone: evaluate(arg)?.into_ref(), the
\* variant the scope property C9_StackWritesStayInFrame has to tell apart
\* from the argument marshalling
MarshalArg_no_clone(h, v) == into_ref(h, v)

\* an argument of a function call: evaluate(arg)?.clone().into_ref()
MarshalArg(h, v) ==
    LET c == clone(h, v)
    IN  into_ref(c.h, c.v)

\* an argument of a native call: evaluate(arg)?.clone()
MarshalNative(h, v) == clone(h, v)

\* an argument of Initialize: the evaluated value itself
MarshalPlain(h, v) == HV(h, v)

Marshal(mode, h, v) ==
    CASE mode = "into_ref" -> MarshalArg(h, v)
      [] mode = "clone" -> MarshalNative(h, v)
      [] mode = "plain" -> MarshalPlain(h, v)

\* the value of x bound once: body(x).  (A LET would be evaluated at each
\* of its uses.)
Bind(x, body(_)) == CHOOSE y \in {body(v) : v \in {x}} : TRUE

RECURSIVE evaluate(_, _, _, _)
RECURSIVE EvalArgs(_, _, _, _, _, _, _)
RECURSIVE FunctionBody(_, _, _, _, _, _, _)
RECURSIVE call(_, _, _)

\* Function::call: the expressions in order, the last one's value.  n0 is
\* the table's length when the caller took its &Function: once the table
\* has grown the reference may dangle, and the next read through it is
\* undefined behaviour (st.ub: it goes wrong).
FunctionBody(exprs, i, st, stack, captured, acc, n0) ==
    IF i > Len(exprs) THEN Ok(acc, st, stack)
    ELSE IF i > 1 /\ Len(st.functions) > n0 /\ st.ub
    THEN Err(Undefined, Log(st, Ev("dangling", i)), stack)
    ELSE Bind(evaluate(exprs[i], st, stack, captured), LAMBDA r :
            IF ~r.ok THEN r
            ELSE FunctionBody(exprs, i + 1, r.st, r.stack, captured, r.val, n0))

Function_call(function, st, stack, captured) ==
    Bind(FunctionBody(function.expressions, 1,
                      Log(st, [e |-> "enter", stack |-> stack, captured |-> captured,
                               globals |-> st.globals,
                               cpayloads |-> [i \in 1..Len(captured) |->
                                                Payload(st.heap, captured[i])],
                               payloads |-> [i \in 1..Len(stack) |-> Payload(st.heap, stack[i])],
                               gpayloads |-> [i \in 1..Len(st.globals) |->
                                                Payload(st.heap, st.globals[i])]]),
                      stack, captured, DefaultValue, Len(st.functions)),
         LAMBDA r : [r EXCEPT !.st = Log(r.st, [e |-> "leave", ok |-> r.ok])])

\* call with the arity check reduced to the lower bound: the variant the
\* arity property C1_ArityGate has to tell apart from call
call_min_only(st, func, args) ==
    IF Len(args) < func.arg_count.min
    THEN Fault(IncorrectArgumentCount(func.arg_count.min, func.arg_count.max, Len(args)),
               st, <<>>)
    ELSE Bind(PadUninit(st.heap, args, max_capped(func.arg_count) - Len(args)), LAMBDA p1 :
         Bind(PadUninit(p1.h, p1.s, func.variable_count), LAMBDA p2 :
         Bind(Log([st EXCEPT !.heap = p2.h],
                  [e |-> "call", a |-> func.location, func |-> func, args |-> args]),
              LAMBDA st1 :
            IF ~HasFunction(st.functions, func.location)
            THEN Err(Panic, st1, <<>>)
            ELSE Function_call(get_function(st.functions, func.location), st1, p2.s,
                               IF func.function_type.k = "CapturingRef"
                               THEN func.function_type.caps ELSE <<>>))))

\* call without the slots of the local variables: the variant the frame
\* property C12_FrameLayout has to tell apart from call
call_no_locals(st, func, args) ==
    IF ~valid_arg_count(func.arg_count, Len(args))
    THEN Fault(IncorrectArgumentCount(func.arg_count.min, func.arg_count.max, Len(args)),
               st, <<>>)
    ELSE Bind(PadUninit(st.heap, args, max_capped(func.arg_count) - Len(args)), LAMBDA p1 :
         Bind(Log([st EXCEPT !.heap = p1.h],
                  [e |-> "call", a |-> func.location, func |-> func, args |-> args]),
              LAMBDA st1 :
            IF ~HasFunction(st.functions, func.location)
            THEN Err(Panic, st1, <<>>)
            ELSE Function_call(get_function(st.functions, func.location), st1, p1.s,
                               IF func.function_type.k = "CapturingRef"
                               THEN func.function_type.caps ELSE <<>>)))

\* ExecutionEngine::call
call(st, func, args) ==
    IF ~valid_arg_count(func.arg_count, Len(args))
    THEN Fault(IncorrectArgumentCount(func.arg_count.min, func.arg_count.max, Len(args)),
               st, <<>>)
    ELSE Bind(PadUninit(st.heap, args, max_capped(func.arg_count) - Len(args)), LAMBDA p1 :
         Bind(PadUninit(p1.h, p1.s, func.variable_count), LAMBDA p2 :
         Bind(Log([st EXCEPT !.heap = p2.h],
                  [e |-> "call", a |-> func.location, func |-> func, args |-> args]),
              LAMBDA st1 :
            IF ~HasFunction(st.functions, func.location)
            THEN Err(Panic, st1, <<>>)
            ELSE Function_call(get_function(st.functions, func.location), st1, p2.s,
                               IF func.function_type.k = "CapturingRef"
                               THEN func.function_type.caps ELSE <<>>))))

\* the embedder's native functions
native(f, st, args) ==
    CASE f = "register" ->
            Bind(register_function(st.functions, NativeWriter, 0), LAMBDA g :
                Ok(FnV(g.ref),
                   Log([st EXCEPT !.functions = g.functions],
                       [e |-> "register", a |-> g.ref.location, n |-> Len(st.functions)]),
                   <<>>))
      [] f = "fault" -> Err(HostError, st, <<>>)
      [] f = "first" -> Ok(IF Len(args) > 0 THEN args[1] ELSE Null, st, <<>>)

\* the argument loop running on after an argument failed and reporting the
\* first failure at its end: the variant the ordering property
\* C15_LeftToRightAbort has to tell apart from the loop
RECURSIVE EvalArgs_run_on(_, _, _, _, _, _, _)
EvalArgs_run_on(args, i, acc, st, stack, captured, mode) ==
    IF i > Len(args)
    THEN [ok |-> TRUE, err |-> NoError, vals |-> acc, st |-> st, stack |-> stack]
    ELSE Bind(evaluate(args[i], st, stack, captured), LAMBDA r :
            IF ~r.ok
            THEN Bind(EvalArgs_run_on(args, i + 1, acc, r.st, r.stack, captured, mode),
                      LAMBDA rest : [rest EXCEPT !.ok = FALSE, !.err = r.err])
            ELSE Bind(Marshal(mode, r.st.heap, r.val), LAMBDA m :
                    EvalArgs_run_on(args, i + 1, Append(acc, m.v),
                                    [r.st EXCEPT !.heap = m.h], r.stack, captured, mode)))

\* the arguments of a call, left to right; the first failure ends it
EvalArgs(args, i, acc, st, stack, captured, mode) ==
    IF i > Len(args)
    THEN [ok |-> TRUE, err |-> NoError, vals |-> acc, st |-> st, stack |-> stack]
    ELSE Bind(evaluate(args[i], st, stack, captured), LAMBDA r :
            IF ~r.ok
            THEN [ok |-> FALSE, err |-> r.err, vals |-> acc, st |-> r.st, stack |-> r.stack]
            ELSE Bind(Marshal(mode, r.st.heap, r.val), LAMBDA m :
                    EvalArgs(args, i + 1, Append(acc, m.v),
                             [r.st EXCEPT !.heap = m.h], r.stack, captured, mode)))

\* the call of a marshalled argument list, the caller's frame suspended
CallWith(func, a) ==
    Bind(call([a.st EXCEPT !.frames = Append(@, a.stack)], func, a.vals), LAMBDA c :
        [c EXCEPT !.st = [c.st EXCEPT !.frames = a.st.frames], !.stack = a.stack])

EvalRawValue(expr, st, stack, captured) ==
    Bind(clone(st.heap, expr.v), LAMBDA c :
        Ok(c.v, [st EXCEPT !.heap = c.h], stack))

EvalVariable(expr, st, stack, captured) ==
    Bind(Slots(expr.var, st, stack, captured), LAMBDA s :
        IF ~InRange(expr.var.addr, s) THEN Err(Panic, st, stack)
        ELSE Bind(dupe_ref(s[expr.var.addr + 1]), LAMBDA v :
                Ok(v, Observe(st, v), stack)))

\* BinaryOpEval evaluating its right operand although the left one failed:
\* the variant the unwinding property C3_NothingBetweenRaiseAndCatch has to
\* tell apart from BinaryOpEval
EvalBinaryOp_both(expr, st, stack, captured) ==
    Bind(evaluate(expr.l, st, stack, captured), LAMBDA l :
    Bind(evaluate(expr.r, l.st, l.stack, captured), LAMBDA r :
        IF ~l.ok THEN [l EXCEPT !.st = r.st, !.stack = r.stack]
        ELSE IF ~r.ok THEN r
        ELSE Ok(apply_2(expr.op, r.st.heap, l.val, r.val),
                Log(Observe(Observe(r.st, l.val), r.val), Ev("apply_2", 0)),
                r.stack)))

EvalBinaryOp(expr, st, stack, captured) ==
    Bind(evaluate(expr.l, st, stack, captured), LAMBDA l :
        IF ~l.ok THEN l
        ELSE Bind(evaluate(expr.r, l.st, l.stack, captured), LAMBDA r :
                IF ~r.ok THEN r
                ELSE Ok(apply_2(expr.op, r.st.heap, l.val, r.val),
                        Log(Observe(Observe(r.st, l.val), r.val), Ev("apply_2", 0)),
                        r.stack)))

EvalUnaryOp(expr, st, stack, captured) ==
    Bind(evaluate(expr.x, st, stack, captured), LAMBDA v :
        IF ~v.ok THEN v
        ELSE Ok(apply_1(expr.op, v.st.heap, v.val),
                Log(Observe(v.st, v.val), Ev("apply_1", 0)), v.stack))

EvalStaticCall(expr, st, stack, captured) ==
    Bind(EvalArgs(expr.args, 1, <<>>, st, stack, captured, "into_ref"), LAMBDA a :
        IF ~a.ok THEN Err(a.err, a.st, a.stack)
        ELSE CallWith(expr.func, a))

\* DynamicFunctionCall collecting its arguments before it casts the target:
\* the variant the dynamic-call property C13_DynamicCall has to tell apart
\* from DynamicFunctionCall
EvalDynamicCall_args_first(expr, st, stack, captured) ==
    Bind(evaluate(expr.func, st, stack, captured), LAMBDA f :
        IF ~f.ok THEN f
        ELSE Bind(EvalArgs(expr.args, 1, <<>>, f.st, f.stack, captured, "into_ref"),
                  LAMBDA a :
                    IF ~a.ok THEN Err(a.err, a.st, a.stack)
                    ELSE IF ~IsFunction(a.st.heap, f.val)
                    THEN Fault(InvalidInvocationTarget, a.st, a.stack)
                    ELSE CallWith(cast_to_function(f.st.heap, f.val), a)))

EvalDynamicCall(expr, st, stack, captured) ==
    Bind(evaluate(expr.func, st, stack, captured), LAMBDA f :
        IF ~f.ok THEN f
        ELSE IF ~IsFunction(f.st.heap, f.val)
        THEN Fault(InvalidInvocationTarget, f.st, f.stack)
        ELSE Bind(EvalArgs(expr.args, 1, <<>>, f.st, f.stack, captured, "into_ref"),
                  LAMBDA a :
                    IF ~a.ok THEN Err(a.err, a.st, a.stack)
                    ELSE CallWith(cast_to_function(f.st.heap, f.val), a)))

\* FunctionCapture storing clones of the variables instead of handles duped
\* from them: the variant the capture property C11_CaptureSharesSlot has to
\* tell apart from FunctionCapture
RECURSIVE CloneAll(_, _, _)
CloneAll(h, s, vs) ==
    IF vs = <<>> THEN [h |-> h, s |-> s]
    ELSE Bind(clone(h, Head(vs)), LAMBDA c : CloneAll(c.h, Append(s, c.v), Tail(vs)))

EvalFunctionCapture_clone(expr, st, stack, captured) ==
    IF expr.func.function_type.k # "CapturingDef"
    THEN Fault(InvalidInvocationTarget, st, stack)
    ELSE Bind(expr.func.function_type.vars, LAMBDA template :
            IF \E i \in 1..Len(template) :
                  ~InRange(template[i].addr, Slots(template[i], st, stack, captured))
            THEN Err(Panic, st, stack)
            ELSE Bind(CloneAll(st.heap, <<>>,
                               [i \in 1..Len(template) |->
                                  Slots(template[i], st, stack, captured)
                                     [template[i].addr + 1]]),
                      LAMBDA cl :
                        Ok(FnV([expr.func EXCEPT !.function_type = CapturingRef(cl.s)]),
                           Log([st EXCEPT !.heap = cl.h, !.closures = Append(@, cl.s)],
                               [e |-> "capture", template |-> template, slice |-> cl.s,
                                slots |-> [i \in 1..Len(template) |->
                                             Slots(template[i], st, stack, captured)
                                                [template[i].addr + 1]],
                                payloads |-> [i \in 1..Len(cl.s) |->
                                                Payload(cl.h, cl.s[i])]]),
                           stack)))

\* FunctionCapture taking a FunctionRef that is no CapturingDef as one
\* without variables: the variant the capture property C14_FunctionCapture
\* has to tell apart from FunctionCapture
EvalFunctionCapture_lenient(expr, st, stack, captured) ==
    Bind(IF expr.func.function_type.k = "CapturingDef"
         THEN expr.func.function_type.vars ELSE <<>>, LAMBDA template :
            IF \E i \in 1..Len(template) :
                  ~InRange(template[i].addr, Slots(template[i], st, stack, captured))
            THEN Err(Panic, st, stack)
            ELSE Bind([i \in 1..Len(template) |->
                         dupe_ref(Slots(template[i], st, stack, captured)
                                     [template[i].addr + 1])],
                      LAMBDA slice :
                        Ok(FnV([expr.func EXCEPT !.function_type = CapturingRef(slice)]),
                           Log([st EXCEPT !.closures = Append(@, slice)],
                               [e |-> "capture", template |-> template, slice |-> slice,
                                slots |-> slice,
                                payloads |-> [i \in 1..Len(slice) |->
                                                Payload(st.heap, slice[i])]]),
                           stack)))

EvalFunctionCapture(expr, st, stack, captured) ==
    IF expr.func.function_type.k # "CapturingDef"
    THEN Fault(InvalidInvocationTarget, st, stack)
    ELSE Bind(expr.func.function_type.vars, LAMBDA template :
            IF \E i \in 1..Len(template) :
                  ~InRange(template[i].addr, Slots(template[i], st, stack, captured))
            THEN Err(Panic, st, stack)
            ELSE Bind([i \in 1..Len(template) |->
                         dupe_ref(Slots(template[i], st, stack, captured)
                                     [template[i].addr + 1])],
                      LAMBDA slice :
                        Ok(FnV([expr.func EXCEPT !.function_type = CapturingRef(slice)]),
                           Log([st EXCEPT !.closures = Append(@, slice)],
                               [e |-> "capture", template |-> template, slice |-> slice,
                                slots |-> [i \in 1..Len(template) |->
                                             Slots(template[i], st, stack, captured)
                                                [template[i].addr + 1]],
                                payloads |-> [i \in 1..Len(slice) |->
                                                Payload(st.heap, slice[i])]]),
                           stack)))

EvalAssignStack(expr, st, stack, captured) ==
    Bind(evaluate(expr.expr, st, stack, captured), LAMBDA r :
        IF ~r.ok THEN r
        ELSE IF ~InRange(expr.addr, r.stack) THEN Err(Panic, r.st, r.stack)
        ELSE Bind(assign(r.st.heap, r.stack[expr.addr + 1], r.val), LAMBDA a :
             Bind(CellOf(r.stack[expr.addr + 1]), LAMBDA c :
                Ok(DefaultValue,
                   Log([r.st EXCEPT !.heap = a.h],
                       [e |-> "assign", arm |-> "AssignStack", c |-> c, addr |-> expr.addr,
                        p |-> Payload(r.st.heap, r.val),
                        frame |-> AliasFrame(r.st, c),
                        global |-> AliasGlobal(r.st, c),
                        captured |-> AliasCaptured(r.st, c, captured)]),
                   [r.stack EXCEPT ![expr.addr + 1] = a.v]))))

EvalAssignGlobal(expr, st, stack, captured) ==
    Bind(evaluate(expr.expr, st, stack, captured), LAMBDA r :
        IF ~r.ok THEN r
        ELSE IF ~InRange(expr.addr, r.st.globals) THEN Err(Panic, r.st, r.stack)
        ELSE Bind(assign(r.st.heap, r.st.globals[expr.addr + 1], r.val), LAMBDA a :
                Ok(DefaultValue,
                   Log([r.st EXCEPT !.heap = a.h,
                                    !.globals = [@ EXCEPT ![expr.addr + 1] = a.v]],
                       [e |-> "assign", arm |-> "AssignGlobal",
                        c |-> CellOf(r.st.globals[expr.addr + 1]),
                        p |-> Payload(r.st.heap, r.val)]),
                   r.stack)))

\* AssignDynamic assigning into a clone of the target instead of a handle
\* duped from it: the variant the aliasing property C10_AssignDynamicAliases
\* has to tell apart from AssignDynamic
EvalAssignDynamic_clone(expr, st, stack, captured) ==
    Bind(evaluate(expr.target, st, stack, captured), LAMBDA t :
        IF ~t.ok THEN t
        ELSE Bind(evaluate(expr.value, t.st, t.stack, captured), LAMBDA v :
                IF ~v.ok THEN v
                ELSE Bind(clone(v.st.heap, t.val), LAMBDA d :
                     Bind(assign(d.h, d.v, v.val), LAMBDA a :
                        Ok(DefaultValue,
                           Log([v.st EXCEPT !.heap = a.h],
                               [e |-> "assign", arm |-> "AssignDynamic",
                                c |-> CellOf(t.val),
                                p |-> Payload(v.st.heap, v.val)]),
                           v.stack)))))

EvalAssignDynamic(expr, st, stack, captured) ==
    Bind(evaluate(expr.target, st, stack, captured), LAMBDA t :
        IF ~t.ok THEN t
        ELSE Bind(evaluate(expr.value, t.st, t.stack, captured), LAMBDA v :
                IF ~v.ok THEN v
                ELSE Bind(assign(v.st.heap, dupe_ref(t.val), v.val), LAMBDA a :
                        Ok(DefaultValue,
                           Log([v.st EXCEPT !.heap = a.h],
                               [e |-> "assign", arm |-> "AssignDynamic",
                                c |-> CellOf(t.val),
                                p |-> Payload(v.st.heap, v.val)]),
                           v.stack))))

EvalNativeCall(expr, st, stack, captured) ==
    Bind(EvalArgs(expr.args, 1, <<>>, st, stack, captured, "clone"), LAMBDA a :
        IF ~a.ok THEN Err(a.err, a.st, a.stack)
        ELSE Bind(native(expr.func, Log(a.st, Ev("native", Len(a.vals))), a.vals),
                  LAMBDA r : [r EXCEPT !.stack = a.stack]))

EvalInitialize(expr, st, stack, captured) ==
    Bind(EvalArgs(expr.args, 1, <<>>, st, stack, captured, "plain"), LAMBDA a :
        IF ~a.ok THEN Err(a.err, a.st, a.stack)
        ELSE Ok(initialize(expr.init, a.st.heap, a.vals),
                Log(a.st, Ev("initialize", Len(a.vals))), a.stack))

\* ReturnTarget intercepting a Return of any target: the variant the escape
\* property C5_UnmatchedReturnEscapes has to tell apart from it
EvalReturnTarget_any_target(expr, st, stack, captured) ==
    Bind(evaluate(expr.expr, [st EXCEPT !.active = Append(@, expr.target)],
                  stack, captured), LAMBDA r :
    Bind(IF ~r.ok /\ r.err.k = "Return" THEN or_return(r, r.err.target) ELSE r,
         LAMBDA o : [o EXCEPT !.st = [o.st EXCEPT !.active = st.active]]))

\* ReturnTarget intercepting every error, not only a Return: the variant
\* the fatal-fault property C4_FaultsAreFatal has to tell apart from it
EvalReturnTarget_any_error(expr, st, stack, captured) ==
    Bind(evaluate(expr.expr, [st EXCEPT !.active = Append(@, expr.target)],
                  stack, captured), LAMBDA r :
    Bind(IF r.ok THEN r
         ELSE Ok(r.st.return_value,
                 Log(r.st, [e |-> "catch", a |-> expr.target,
                            p |-> Payload(r.st.heap, r.st.return_value)]),
                 r.stack),
         LAMBDA o : [o EXCEPT !.st = [o.st EXCEPT !.active = st.active]]))

\* ReturnTarget emptying engine.return_value when it intercepts: the variant
\* the property C17_WrittenOnlyByReturn has to tell apart from it
EvalReturnTarget_take(expr, st, stack, captured) ==
    Bind(evaluate(expr.expr, [st EXCEPT !.active = Append(@, expr.target)],
                  stack, captured), LAMBDA r :
    Bind(or_return(r, expr.target), LAMBDA o :
        [o EXCEPT !.st = [o.st EXCEPT !.active = st.active,
                                      !.return_value =
                                         IF ~r.ok /\ o.ok THEN DefaultValue ELSE @]]))

EvalReturnTarget(expr, st, stack, captured) ==
    Bind(evaluate(expr.expr, [st EXCEPT !.active = Append(@, expr.target)],
                  stack, captured), LAMBDA r :
    Bind(or_return(r, expr.target), LAMBDA o :
        [o EXCEPT !.st = [o.st EXCEPT !.active = st.active]]))

\* Return without the store into engine.return_value: the variant the
\* matching property C2_ReturnTargetMatching has to tell apart from Return
EvalReturn_no_store(expr, st, stack, captured) ==
    Bind(evaluate(expr.expr, st, stack, captured), LAMBDA r :
        IF ~r.ok THEN r
        ELSE Err(ReturnErr(expr.target),
                 Log(r.st, [e |-> "raise", a |-> expr.target,
                            enclosed |-> expr.target \in Range(r.st.active),
                            p |-> Payload(r.st.heap, r.val),
                            slot |-> Payload(r.st.heap, r.st.return_value),
                            v |-> r.st.return_value]),
                 r.stack))

\* Return storing into engine.return_value also when its body failed: the
\* variant the property C18_FailedBodyPropagates has to tell apart from
\* Return
EvalReturn_store_always(expr, st, stack, captured) ==
    Bind(evaluate(expr.expr, st, stack, captured), LAMBDA r :
        IF ~r.ok THEN [r EXCEPT !.st = [r.st EXCEPT !.return_value = r.val]]
        ELSE Err(ReturnErr(expr.target),
                 Log([r.st EXCEPT !.return_value = r.val],
                     [e |-> "raise", a |-> expr.target,
                      enclosed |-> expr.target \in Range(r.st.active),
                      p |-> Payload(r.st.heap, r.val),
                      slot |-> Payload(r.st.heap, r.val), v |-> r.val]),
                 r.stack))

\* Return leaving the slot alone when its body's evaluation has written it:
\* the variant the delivery property C16_DeliversRaisedValue has to tell
\* apart from Return
EvalReturn_keep_inner(expr, st, stack, captured) ==
    Bind(evaluate(expr.expr, st, stack, captured), LAMBDA r :
        IF ~r.ok THEN r
        ELSE Bind(IF r.st.return_value = st.return_value THEN r.val
                  ELSE r.st.return_value, LAMBDA w :
                Err(ReturnErr(expr.target),
                    Log([r.st EXCEPT !.return_value = w],
                        [e |-> "raise", a |-> expr.target,
                         enclosed |-> expr.target \in Range(r.st.active),
                         p |-> Payload(r.st.heap, r.val),
                         slot |-> Payload(r.st.heap, w), v |-> w]),
                    r.stack)))

EvalReturn(expr, st, stack, captured) ==
    Bind(evaluate(expr.expr, st, stack, captured), LAMBDA r :
        IF ~r.ok THEN r
        ELSE Err(ReturnErr(expr.target),
                 Log([r.st EXCEPT !.return_value = r.val],
                     [e |-> "raise", a |-> expr.target,
                      enclosed |-> expr.target \in Range(r.st.active),
                      p |-> Payload(r.st.heap, r.val),
                      slot |-> Payload(r.st.heap, r.val), v |-> r.val]),
                 r.stack))

\* the arm of evaluate's match that expr selects
EvalArm(expr, st, stack, captured) ==
    CASE expr.arm = "RawValue" -> EvalRawValue(expr, st, stack, captured)
      [] expr.arm = "Variable" -> EvalVariable(expr, st, stack, captured)
      [] expr.arm = "BinaryOpEval" -> EvalBinaryOp(expr, st, stack, captured)
      [] expr.arm = "UnaryOpEval" -> EvalUnaryOp(expr, st, stack, captured)
      [] expr.arm = "StaticFunctionCall" -> EvalStaticCall(expr, st, stack, captured)
      [] expr.arm = "DynamicFunctionCall" -> EvalDynamicCall(expr, st, stack, captured)
      [] expr.arm = "FunctionCapture" -> EvalFunctionCapture(expr, st, stack, captured)
      [] expr.arm = "AssignStack" -> EvalAssignStack(expr, st, stack, captured)
      [] expr.arm = "NativeFunctionCall" -> EvalNativeCall(expr, st, stack, captured)
      [] expr.arm = "AssignGlobal" -> EvalAssignGlobal(expr, st, stack, captured)
      [] expr.arm = "AssignDynamic" -> EvalAssignDynamic(expr, st, stack, captured)
      [] expr.arm = "Initialize" -> EvalInitialize(expr, st, stack, captured)
      [] expr.arm = "ReturnTarget" -> EvalReturnTarget(expr, st, stack, captured)
      [] expr.arm = "Return" -> EvalReturn(expr, st, stack, captured)

\* evaluate: one arm per expression form
evaluate(expr, st0, stack0, captured0) ==
    Bind(Log(st0, [e |-> "eval", arm |-> expr.arm]), LAMBDA st :
    Bind(stack0, LAMBDA stack :
    Bind(captured0, LAMBDA captured :
        EvalArm(expr, st, stack, captured))))

\* vec![elem; n]: elem evaluated once, n - 1 clones of it pushed and elem
\* itself last (none at all when n = 0)
RECURSIVE vec_from_elem(_, _, _, _)
vec_from_elem(h, s, elem, n) ==
    IF n <= 0 THEN [h |-> h, s |-> s]
    ELSE IF n = 1 THEN [h |-> h, s |-> Append(s, elem)]
    ELSE Bind(clone(h, elem), LAMBDA c :
            vec_from_elem(c.h, Append(s, c.v), elem, n - 1))

\* run that keeps the globals it finds: the variant the clean-start
\* property C8_RunStartsClean has to tell apart from run
run_keep_globals(st, n_globals, entry, n_stack) ==
    Bind(uninitialized_reference(st.heap), LAMBDA u :
    Bind(vec_from_elem(u.h, <<>>, u.v, n_stack), LAMBDA s :
    Bind([st EXCEPT !.heap = s.h], LAMBDA st1 :
        IF ~HasFunction(st.functions, entry) THEN Err(Panic, st1, <<>>)
        ELSE Function_call(get_function(st.functions, entry), st1, s.s, <<>>))))

\* ExecutionEngine::run
run(st, n_globals, entry, n_stack) ==
    Bind(uninitialized_reference(st.heap), LAMBDA ug :
    Bind(vec_from_elem(ug.h, <<>>, ug.v, n_globals), LAMBDA g :
    Bind(uninitialized_reference(g.h), LAMBDA us :
    Bind(vec_from_elem(us.h, <<>>, us.v, n_stack), LAMBDA s :
    Bind([st EXCEPT !.heap = s.h, !.globals = g.s], LAMBDA st1 :
        IF ~HasFunction(st.functions, entry) THEN Err(Panic, st1, <<>>)
        ELSE Function_call(get_function(st.functions, entry), st1, s.s, <<>>))))))

\* ExecutionEngine::create_global: the globals after the push and the address
create_global(h, g) ==
    LET u == uninitialized_reference(h)
    IN  [heap |-> u.h, globals |-> Append(g, u.v), addr |-> Len(g)]

----------------------------------------------------------------------------
(* The programs: the function table the engine is constructed with, and    *)
(* the writers the embedder registers later.                               *)

\* the k-th writer of the initial table (location k) and its return target
Lit(n) == RawValue(IntV(n))
Stk(i) == Variable("Stack", i)
Glb(i) == Variable("Global", i)
Cap(i) == Variable("Captured", i)

\* 0: add(a, b) = a + b
WAdd == Writer(Fixed(2), 0, Static, <<BinaryOpEval("+", Stk(0), Stk(1))>>)
\* 1: 1 + return 99, caught by the function's own target 1
WEarly == Writer(Fixed(0), 0, Static,
                 <<BinaryOpEval("+", Lit(1), Return(1, Lit(99)))>>)
\* 2: return to target 2, which the function itself does not establish
WEscape == Writer(Fixed(0), 0, Static,
                  <<AssignGlobal(0, Lit(3)),
                    BinaryOpEval("+", Return(2, Lit(7)), AssignGlobal(0, Lit(4)))>>)
\* 3: stores its argument in global 0, assigns through a duped handle
WStore == Writer(Fixed(1), 1, Static,
                 <<AssignGlobal(0, Stk(0)), AssignStack(1, Lit(5)),
                   AssignDynamic(Stk(0), Lit(7)),
                   BinaryOpEval("+", Stk(0), Stk(1))>>)
\* 4: the closure body: reads what it captured from Stack(0)
WGetter == Writer(Fixed(0), 0, CapturingDef(<<VarRef("Stack", 0)>>), <<Cap(0)>>)
\* 5: captures its slot 0 in a closure, reassigns the slot, calls the closure
WClosure == Writer(Fixed(0), 2, Static,
                   <<AssignStack(0, Lit(7)),
                     AssignStack(1, FunctionCapture(to_ref(WGetter, 4))),
                     AssignStack(0, Lit(8)),
                     DynamicFunctionCall(Stk(1), <<>>)>>)
\* 6: catches the Return(2) that function 2 lets escape
WCatcher == Writer(Fixed(0), 1, Static,
                   <<ReturnTarget(2, BinaryOpEval("+", Lit(1),
                        StaticFunctionCall(to_ref(WEscape, 2), <<>>)))>>)
\* 7: calls add with one argument, inside two return targets
WBadCall == Writer(Fixed(0), 0, Static,
                   <<ReturnTarget(3, BinaryOpEval("+",
                        StaticFunctionCall(to_ref(WAdd, 0), <<Lit(10)>>),
                        NativeFunctionCall("first", <<Lit(1)>>)))>>)
\* 8: calls a value that is no function
WDynBad == Writer(Fixed(0), 0, Static,
                  <<ReturnTarget(2, DynamicFunctionCall(Lit(3), <<AssignGlobal(0, Lit(1))>>))>>)
\* 9: reads global 0
WReader == Writer(Fixed(0), 0, Static, <<Glb(0)>>)
\* 10: a native function registers a function, which is then called
WRegistrar == Writer(Fixed(0), 1, Static,
                     <<AssignStack(0, NativeFunctionCall("register", <<>>)),
                       DynamicFunctionCall(Stk(0), <<>>)>>)
\* 11: calls function 8 (which faults) inside a return target of its own
WDeep == Writer(Fixed(0), 0, Static,
                <<AssignGlobal(0, Lit(5)),
                  ReturnTarget(2, StaticFunctionCall(to_ref(WDynBad, 8), <<>>))>>)
\* 12: overwrites its argument slot
WBump == Writer(Fixed(1), 0, Static, <<AssignStack(0, Lit(6)), Stk(0)>>)

\* 13: a closure body reading what it captured from Stack(2)
WGetter2 == Writer(Fixed(0), 0, CapturingDef(<<VarRef("Stack", 2)>>), <<Cap(0)>>)
\* 14: captures its slot 0, reassigns the slot and returns the closure
WMaker == Writer(Fixed(0), 2, Static,
                 <<AssignStack(0, Lit(7)),
                   AssignStack(1, FunctionCapture(to_ref(WGetter, 4))),
                   AssignStack(0, Lit(8)),
                   Stk(1)>>)

\* 15: a closure body over four variables of the three kinds
WGetter4 == Writer(Fixed(0), 0,
                   CapturingDef(<<VarRef("Stack", 1), VarRef("Global", 0),
                                  VarRef("Captured", 0), VarRef("Stack", 2)>>),
                   <<Cap(1)>>)

InitWriters == <<WAdd, WEarly, WEscape, WStore, WGetter, WClosure, WCatcher,
                 WBadCall, WDynBad, WReader, WRegistrar, WDeep, WBump,
                 WGetter2, WMaker, WGetter4>>

\* the return target every function of the initial table is built with
InitTarget(k) == 1

InitFunctions == [k \in 1..Len(InitWriters) |-> build(InitWriters[k], InitTarget(k))]
InitRefs == [k \in 1..Len(InitWriters) |-> to_ref(InitWriters[k], k - 1)]

\* the entry points the engine is constructed with
EntryPoints == {1, 2, 7, 10, 11}

\* what the embedder registers after construction: a writer and its target
\* 1..2-argument function returning its first argument plus global 0
WLate == Writer(Variadic(1, 2), 0, Static,
                <<AssignGlobal(0, Stk(0)), BinaryOpEval("+", Stk(0), Glb(0))>>)
\* a function calling add with the right number of arguments
WLateCall == Writer(Fixed(0), 0, Static,
                    <<Return(2, StaticFunctionCall(to_ref(WAdd, 0), <<Lit(10), Lit(32)>>))>>)
Registrations == {[w |-> WLate, target |-> 1], [w |-> WLateCall, target |-> 2]}

\* the argument lists the embedder passes to call: raw integers
ArgLists == {<<>>, <<IntV(1)>>, <<IntV(1), IntV(2)>>, <<IntV(1), IntV(2), IntV(3)>>}

\* the handles the embedder calls directly
Callable == {f \in Range(refs) : f.location \in {0, 3, 7} \/ f.location >= Len(InitRefs)}

\* the expressions handed to evaluate: atoms, calls and raisers, each in
\* every one-hole context, bare or inside a ReturnTarget
Atoms == {Lit(1), Stk(0), Glb(0), Cap(0)}
Calls ==
    {StaticFunctionCall(InitRefs[k], <<>>) : k \in {2, 3, 6, 7, 8, 11}} \cup
    {StaticFunctionCall(InitRefs[1], <<Lit(1), Stk(1)>>),
     StaticFunctionCall(InitRefs[1], <<Lit(10)>>),
     StaticFunctionCall(InitRefs[4], <<Stk(0)>>),
     StaticFunctionCall(InitRefs[13], <<Stk(0)>>)}
Raisers ==
    {Return(1, Lit(99)), Return(2, Stk(0)),
     DynamicFunctionCall(Lit(3), <<>>), NativeFunctionCall("fault", <<>>)}
Base == Atoms \cup Calls \cup Raisers

Contexts(x) ==
    {BinaryOpEval("+", x, AssignStack(1, Lit(2))),
     BinaryOpEval("+", Stk(0), x),
     UnaryOpEval("-", x),
     StaticFunctionCall(InitRefs[1], <<x, AssignGlobal(0, Lit(2))>>),
     DynamicFunctionCall(x, <<AssignStack(1, Lit(2))>>),
     DynamicFunctionCall(RawValue(FnV(InitRefs[1])), <<Lit(1), x>>),
     NativeFunctionCall("first", <<x, AssignStack(1, Lit(2))>>),
     Initialize("list", <<Lit(1), x, AssignStack(1, Lit(2))>>),
     AssignStack(0, x),
     AssignGlobal(0, x),
     AssignDynamic(x, Lit(4)),
     AssignDynamic(Stk(0), x),
     Return(1, x),
     Return(2, x)}

\* handles duped from slot 0 before and after an assignment through one
Aliasing ==
    {BinaryOpEval("+", Stk(0),
        BinaryOpEval("+", AssignDynamic(Stk(0), Lit(4)), Stk(0))),
     StaticFunctionCall(InitRefs[6], <<>>),
     StaticFunctionCall(InitRefs[10], <<>>),
     StaticFunctionCall(InitRefs[12], <<>>)}

\* a closure over raw slot 2, the slot replaced, the closure called, the
\* slot read
SnapshotRaw ==
    Initialize("list", <<AssignStack(1, FunctionCapture(InitRefs[14])),
                         AssignStack(2, Lit(8)),
                         DynamicFunctionCall(Stk(1), <<>>), Stk(2)>>)

\* a closure over a slot of the frame, the slot reassigned, the closure
\* called: slot 0 holds a reference, slot 2 a raw value
Snapshots ==
    {Initialize("list", <<AssignStack(1, FunctionCapture(InitRefs[5])), w,
                          DynamicFunctionCall(Stk(1), <<>>)>>) :
        w \in {AssignStack(0, Lit(8)), AssignDynamic(Stk(0), Lit(8)), Lit(8)}} \cup
    {SnapshotRaw,
     DynamicFunctionCall(StaticFunctionCall(InitRefs[15], <<>>), <<>>)}

\* FunctionCapture of a CapturingDef, of a Static handle and of a handle
\* that is a CapturingRef already; one FunctionCapture evaluated twice
CaptureTwice ==
    Initialize("list", <<FunctionCapture(InitRefs[16]), AssignStack(1, Lit(2)),
                         FunctionCapture(InitRefs[16])>>)
Captures ==
    {FunctionCapture(InitRefs[5]), FunctionCapture(InitRefs[16]),
     FunctionCapture(InitRefs[1]),
     FunctionCapture([InitRefs[5] EXCEPT !.function_type = CapturingRef(<<IntV(1)>>)]),
     CaptureTwice}

\* operand lists that mark their order: the k-th operand assigns k to
\* global 0, except one in the middle that fails or yields 0
Mark(k) == AssignGlobal(0, Lit(k))
Middles == {Lit(0), Return(5, Lit(0)), NativeFunctionCall("fault", <<>>),
            DynamicFunctionCall(Lit(3), <<>>)}
Marked(m) == {<<Mark(1), m>>, <<m, Mark(2)>>}
Orders ==
    UNION {{BinaryOpEval("+", ops[1], ops[2]),
            StaticFunctionCall(InitRefs[1], ops),
            DynamicFunctionCall(RawValue(FnV(InitRefs[1])), ops),
            NativeFunctionCall("first", ops),
            Initialize("list", ops),
            Initialize("list", <<Mark(1), ops[1], ops[2], Mark(3)>>)} :
           ops \in UNION {Marked(m) : m \in Middles}
                      \cup {<<Mark(1), Mark(2)>>, <<Mark(2), Mark(1)>>}}

\* returns whose body, or what is evaluated before them, calls a function
\* that completes a Return / ReturnTarget pair of its own
Nested ==
    {ReturnTarget(2, Return(2, BinaryOpEval("+",
        StaticFunctionCall(InitRefs[2], <<>>), Lit(1)))),
     ReturnTarget(1, BinaryOpEval("+",
        StaticFunctionCall(InitRefs[2], <<>>), Return(1, Lit(5)))),
     ReturnTarget(2, Return(2, Return(2, StaticFunctionCall(InitRefs[2], <<>>)))),
     ReturnTarget(2, BinaryOpEval("+",
        StaticFunctionCall(InitRefs[2], <<>>),
        StaticFunctionCall(InitRefs[3], <<>>)))}

\* returns whose body fails after a function call in it has delivered a
\* value through engine.return_value
FailingBodies ==
    {Return(t, BinaryOpEval("+", StaticFunctionCall(InitRefs[2], <<>>), x)) :
        t \in {1, 2},
        x \in {NativeFunctionCall("fault", <<>>), DynamicFunctionCall(Lit(3), <<>>),
               Return(2, Lit(7))}}

\* a dynamic call of add with one argument too few
DynamicShort == DynamicFunctionCall(RawValue(FnV(InitRefs[1])), <<Lit(1)>>)

Level1 == UNION {Contexts(x) : x \in Base}
EvalExprs ==
    Base \cup Level1 \cup Aliasing \cup Snapshots \cup {DynamicShort} \cup Captures \cup Orders
    \cup Nested \cup FailingBodies
    \cup {ReturnTarget(1, y) : y \in Base \cup UNION {Contexts(x) : x \in Raisers}}
    \cup {ReturnTarget(2, Return(t, x)) : t \in {1, 2}, x \in Base}

\* the payloads of the frame and of the capture slice evaluate is handed
FramePayloads == <<IntV(5), IntV(6)>>
\* and the raw values that follow them in the frame
FrameRaw == <<IntV(3)>>
CapturePayloads == <<IntV(9)>>

----------------------------------------------------------------------------
(* The linear interpreter: ExecutionContext (execution_context.rs).         *)
(* An instruction is a record whose field op names the variant of          *)
(* Instruction that execute matches and whose other fields are the         *)
(* variant's operands, under the names execute binds them to.  frame is a  *)
(* usize: it is held by its representative modulo 2^64 nearest to zero, so *)
(* a base that wrapped below zero in a build without overflow checks is a  *)
(* negative number here and frame + offset wraps back as the sum does.     *)
(* panic records the panic that ended the run, "none" while it runs.       *)

\* ExecutionContext::new: the value stack is empty (with_capacity reserves,
\* it does not fill)
new(instructions, size) ==
    [stack |-> <<>>, instructions |-> instructions, instruction |-> 0,
     frames |-> <<>>, frame |-> 0, return_value |-> DefaultValue,
     right_operand |-> DefaultValue, panic |-> "none"]

panic_with(c, why) == [c EXCEPT !.panic = why]

\* the index get and get_mut compute
slot(c, offset) == c.frame + offset
\* whether self.stack[self.frame + offset] is an element of the stack
in_bounds(c, offset) == slot(c, offset) >= 0 /\ slot(c, offset) < Len(c.stack)

get(c, offset) == c.stack[slot(c, offset) + 1]

\* *self.get_mut(offset) = v
get_mut(c, offset, v) ==
    IF in_bounds(c, offset) THEN [c EXCEPT !.stack[slot(c, offset) + 1] = v]
    ELSE panic_with(c, "index")

\* the Invoke arm saving the base after lowering it: the variant the
\* balance property C19_FramesBalanced has to tell apart from the arm
execute_Invoke_saves_lowered(c, args, size, target, checks) ==
    LET pushed == [c EXCEPT !.frames = Append(@, c.frame - args)]
        lowered == [pushed EXCEPT !.frame = c.frame - args, !.instruction = target]
    IN  IF c.frame >= 0 /\ args > c.frame /\ checks THEN panic_with(pushed, "overflow")
        ELSE IF args > size
             THEN panic_with(lowered, IF checks THEN "overflow" ELSE "capacity")
        ELSE [lowered EXCEPT !.stack = @ \o [i \in 1..(size - args) |-> DefaultValue]]

\* the Invoke arm: the base is saved, lowered by args (a panic with overflow
\* checks when args exceeds it, a wrap without), the instruction pointer set,
\* and stack_size - args default slots pushed (stack_size - args overflowing
\* is a panic with overflow checks and an allocation beyond capacity
\* without)
execute_Invoke(c, args, size, target, checks) ==
    LET pushed == [c EXCEPT !.frames = Append(@, c.frame)]
        lowered == [pushed EXCEPT !.frame = c.frame - args, !.instruction = target]
    IN  IF c.frame >= 0 /\ args > c.frame /\ checks THEN panic_with(pushed, "overflow")
        ELSE IF args > size
             THEN panic_with(lowered, IF checks THEN "overflow" ELSE "capacity")
        ELSE [lowered EXCEPT !.stack = @ \o [i \in 1..(size - args) |-> DefaultValue]]

\* self.frame = self.frames.pop().unwrap()
execute_Return(c) ==
    IF c.frames = <<>> THEN panic_with(c, "unwrap")
    ELSE [c EXCEPT !.frame = c.frames[Len(c.frames)],
                   !.frames = SubSeq(c.frames, 1, Len(c.frames) - 1)]

\* ExecutionContext::execute on the instruction ins
execute(c, ins, checks) ==
    CASE ins.op = "Create" -> get_mut(c, ins.offset, ins.creator)
      [] ins.op = "Move" ->
            IF in_bounds(c, ins.from) THEN get_mut(c, ins.to, get(c, ins.from))
            ELSE panic_with(c, "index")
      [] ins.op = "MoveFromReturn" ->
            get_mut([c EXCEPT !.return_value = DefaultValue], ins.to, c.return_value)
      [] ins.op = "MoveToReturn" ->
            IF in_bounds(c, ins.from) THEN [c EXCEPT !.return_value = get(c, ins.from)]
            ELSE panic_with(c, "index")
      [] ins.op = "MoveRightOperand" ->
            IF in_bounds(c, ins.from) THEN [c EXCEPT !.right_operand = get(c, ins.from)]
            ELSE panic_with(c, "index")
      [] ins.op = "Invoke" ->
            execute_Invoke(c, ins.args, ins.stack_size, ins.instruction, checks)
      [] ins.op = "InvokeNative" -> [c EXCEPT !.return_value = ins.func]
      [] ins.op = "Return" ->
            IF in_bounds(c, ins.offset)
            THEN execute_Return([c EXCEPT !.return_value = get(c, ins.offset)])
            ELSE panic_with(c, "index")
      [] ins.op = "ReturnConstant" ->
            execute_Return([c EXCEPT !.return_value = ins.c])
      [] ins.op = "UnaryOperation" ->
            [c EXCEPT !.return_value = apply_1(ins.unary_op, <<>>, c.return_value)]
      [] ins.op = "BinaryOperation" ->
            [c EXCEPT !.return_value =
                apply_2(ins.binary_op, <<>>, c.return_value, c.right_operand)]

\* the instructions programs are made of
Invoke(args, size, target) ==
    [op |-> "Invoke", args |-> args, stack_size |-> size, instruction |-> target]
Alphabet ==
    {[op |-> "Create", offset |-> 0, creator |-> IntV(7)],
     [op |-> "Create", offset |-> 1, creator |-> IntV(8)],
     [op |-> "Move", from |-> 0, to |-> 1],
     [op |-> "MoveFromReturn", to |-> 0],
     [op |-> "MoveToReturn", from |-> 1],
     [op |-> "MoveRightOperand", from |-> 0],
     Invoke(0, 2, 0), Invoke(1, 2, 0), Invoke(2, 1, 1),
     [op |-> "InvokeNative", func |-> IntV(3)],
     [op |-> "Return", offset |-> 0],
     [op |-> "ReturnConstant", c |-> IntV(9)],
     [op |-> "UnaryOperation", unary_op |-> "-"],
     [op |-> "BinaryOperation", binary_op |-> "+"]}

\* a call without arguments: two slots, a local set and returned
CallNoArgs ==
    <<Invoke(0, 2, 1), [op |-> "ReturnConstant", c |-> IntV(9)],
      [op |-> "Create", offset |-> 1, creator |-> IntV(8)],
      [op |-> "MoveRightOperand", from |-> 1],
      [op |-> "Return", offset |-> 1],
      [op |-> "BinaryOperation", binary_op |-> "+"],
      [op |-> "MoveFromReturn", to |-> 0]>>
\* a call with one argument from a frame of two slots
CallOneArg ==
    <<Invoke(0, 2, 0), [op |-> "Create", offset |-> 1, creator |-> IntV(8)],
      Invoke(1, 3, 2), [op |-> "Move", from |-> 2, to |-> 1],
      [op |-> "Return", offset |-> 2],
      [op |-> "UnaryOperation", unary_op |-> "-"],
      [op |-> "MoveFromReturn", to |-> 0]>>
\* a call inside a call, both returning
CallInCall ==
    <<Invoke(0, 1, 0), Invoke(1, 2, 1), Invoke(0, 1, 2),
      [op |-> "ReturnConstant", c |-> IntV(9)],
      [op |-> "Return", offset |-> 1],
      [op |-> "InvokeNative", func |-> IntV(3)]>>
\* an Invoke that jumps back to itself
CallForever == <<[op |-> "InvokeNative", func |-> IntV(3)], Invoke(0, 1, 0)>>

Programs ==
    {CallNoArgs, CallOneArg, CallInCall, CallForever}
    \cup UNION {[1..n -> Alphabet] : n \in 0..MaxProgram}

----------------------------------------------------------------------------
(* The engine as a state machine *)

Engine(ub) == EngineState(heap, globals, functions, return_value, ub)

(* Cells no value refers to any more are released when an operation      *)
(* returns (the evaluator's temporaries and frames are dropped); the cells *)
(* that remain are numbered in the order the engine's values reach them.   *)

RECURSIVE ValCells(_)
RECURSIVE SeqCells(_, _)
\* the cells the values of sequence s refer to, from index i on
SeqCells(s, i) == IF i > Len(s) THEN <<>> ELSE ValCells(s[i]) \o SeqCells(s, i + 1)
\* the cells value v refers to directly
ValCells(v) ==
    CASE v.k = "ref" -> <<v.c>>
      [] v.k = "fn" ->
            IF v.f.function_type.k = "CapturingRef"
            THEN SeqCells(v.f.function_type.caps, 1) ELSE <<>>
      [] v.k = "list" -> SeqCells(v.items, 1)
      [] OTHER -> <<>>

\* the cells reachable from the cells of `todo`, in the order first reached
RECURSIVE Reach(_, _, _)
Reach(h, order, todo) ==
    IF todo = <<>> THEN order
    ELSE IF Head(todo) \in Range(order) THEN Reach(h, order, Tail(todo))
    ELSE Reach(h, Append(order, Head(todo)), ValCells(h[Head(todo)]) \o Tail(todo))

IndexOf(s, x) == CHOOSE i \in 1..Len(s) : s[i] = x

\* value v with every cell c renamed to its index in `order`
RECURSIVE Rename(_, _)
Rename(v, order) ==
    CASE v.k = "ref" -> RefV(IndexOf(order, v.c))
      [] v.k = "fn" ->
            IF v.f.function_type.k = "CapturingRef"
            THEN FnV([v.f EXCEPT !.function_type =
                        CapturingRef([i \in 1..Len(v.f.function_type.caps) |->
                                        Rename(v.f.function_type.caps[i], order)])])
            ELSE v
      [] v.k = "list" -> ListV([i \in 1..Len(v.items) |-> Rename(v.items[i], order)])
      [] OTHER -> v

\* the engine's values and the returned value after the release
Release(h, g, rv, val) ==
    Bind(Reach(h, <<>>, SeqCells(g \o <<rv, val>>, 1)), LAMBDA order :
        [heap |-> [i \in 1..Len(order) |-> Rename(h[order[i]], order)],
         globals |-> [i \in 1..Len(g) |-> Rename(g[i], order)],
         return_value |-> Rename(rv, order),
         val |-> Rename(val, order)])

\* the record of an operation: its result and what the evaluation did
Done(op, input, r, kept) ==
    [op |-> op, input |-> input,
     ok |-> r.ok, val |-> kept.val, err |-> r.err,
     payload |-> Payload(kept.heap, kept.val),
     log |-> r.st.log,
     ub |-> r.st.ub,
     rv0 |-> return_value,
     rv |-> r.st.return_value,
     heap0 |-> Len(heap),
     functions0 |-> Len(functions),
     dirty |-> \E i \in 1..Len(globals) : Payload(heap, globals[i]) # Null]

\* the operation's effect on the engine
Commit(op, input, r) ==
    /\ Len(r.st.functions) <= Len(InitFunctions) + MaxRegister
    /\ \E kept \in {Release(r.st.heap, r.st.globals, r.st.return_value, r.val)} :
          /\ heap' = kept.heap
          /\ globals' = kept.globals
          /\ return_value' = kept.return_value
          /\ last' = Done(op, input, r, kept)
    /\ functions' = r.st.functions
    /\ evals' = IF op = "evaluate" THEN evals + 1 ELSE evals
    /\ UNCHANGED <<num_globals, entry_point, stack_size, refs, context_vars>>

\* the outcomes of an operation: r0 is its result when no read through a
\* dangling &Function goes wrong, r1 when it does; they differ only when
\* the table grew while a function was running
Outcomes(r0, r1) ==
    IF \E i \in 1..Len(r0.st.log) : r0.st.log[i].e = "register" THEN {r0, r1} ELSE {r0}

\* n cells holding the payloads ps, one reference to each
RECURSIVE AllocAll(_, _, _)
AllocAll(h, s, ps) ==
    IF ps = <<>> THEN [h |-> h, s |-> s]
    ELSE AllocAll(Append(h, Head(ps)), Append(s, RefV(Len(h) + 1)), Tail(ps))

Init ==
    /\ functions = InitFunctions
    /\ refs = InitRefs
    /\ globals = <<>>
    /\ num_globals = 1
    /\ entry_point \in EntryPoints
    /\ stack_size = 2
    /\ return_value = DefaultValue
    /\ heap = <<>>
    /\ last = [op |-> "none"]
    /\ evals = 0
    /\ context = new(<<>>, 0)
    /\ overflow_checks = TRUE
    /\ history = <<>>

Run ==
    \E r0 \in {run(Engine(FALSE), num_globals, entry_point, stack_size)} :
    \E r \in Outcomes(r0, run(Engine(TRUE), num_globals, entry_point, stack_size)) :
        Commit("run", Null, r)

Call ==
    \E f \in Callable, args \in ArgLists :
    \E r0 \in {call(Engine(FALSE), f, args)} :
    \E r \in Outcomes(r0, call(Engine(TRUE), f, args)) :
        Commit("call", [func |-> f, nargs |-> Len(args)], r)

RegisterFunction ==
    /\ Len(functions) < Len(InitFunctions) + MaxRegister
    /\ \E reg \in Registrations :
       \E g \in {register_function(functions, reg.w, reg.target)} :
          /\ functions' = g.functions
          /\ refs' = Append(refs, g.ref)
    /\ UNCHANGED <<globals, num_globals, entry_point, stack_size, return_value,
                   heap, last, evals, context_vars>>

CreateGlobal ==
    /\ Len(globals) < MaxGlobals
    /\ \E g \in {create_global(heap, globals)} :
          /\ heap' = g.heap
          /\ globals' = g.globals
    /\ UNCHANGED <<functions, num_globals, entry_point, stack_size, return_value,
                   refs, last, evals, context_vars>>

\* evaluate(expr, engine, stack, captured) called by the embedder on a
\* frame and a capture slice of its own
Evaluate ==
    /\ evals < MaxEvals
    /\ \E expr \in EvalExprs :
       \E fr \in {AllocAll(heap, <<>>, FramePayloads)} :
       \E cp \in {AllocAll(fr.h, <<>>, CapturePayloads)} :
       \E st \in {EngineState(cp.h, globals, functions, return_value, FALSE)} :
       \E stack \in {fr.s \o FrameRaw} :
       \E r0 \in {evaluate(expr, st, stack, cp.s)} :
       \E r \in Outcomes(r0, evaluate(expr, [st EXCEPT !.ub = TRUE], stack, cp.s)) :
           Commit("evaluate",
                  [expr |-> expr, st |-> st, stack |-> stack, captured |-> cp.s], r)

Next == Run \/ Call \/ RegisterFunction \/ CreateGlobal

Spec == Init /\ [][Next]_vars

\* the evaluator on its own: the engine as constructed with entry point 1,
\* after one create_global
EvalInit ==
    /\ functions = InitFunctions
    /\ refs = InitRefs
    /\ globals = create_global(<<>>, <<>>).globals
    /\ heap = create_global(<<>>, <<>>).heap
    /\ num_globals = 1
    /\ entry_point = 1
    /\ stack_size = 2
    /\ return_value = DefaultValue
    /\ last = [op |-> "none"]
    /\ evals = 0
    /\ context = new(<<>>, 0)
    /\ overflow_checks = TRUE
    /\ history = <<>>
EvalNext == Evaluate
EvalSpec == EvalInit /\ [][EvalNext]_vars

----------------------------------------------------------------------------
(* The linear interpreter as a state machine *)

\* one iteration of the loop of ExecutionContext::run
Step ==
    /\ context.panic = "none"
    /\ context.instruction < Len(context.instructions)
    /\ Len(history) <= MaxSteps
    /\ \E c \in {execute(context, context.instructions[context.instruction + 1],
                         overflow_checks)} :
          /\ context' = IF c.panic = "none" THEN [c EXCEPT !.instruction = @ + 1] ELSE c
          /\ history' = Append(history, context')
    /\ UNCHANGED <<functions, globals, num_globals, entry_point, stack_size,
                   return_value, heap, refs, last, evals, overflow_checks>>

\* the interpreter on its own: new(instructions, stack_size), then run, in
\* a build with or without overflow checks
ContextInit ==
    /\ functions = InitFunctions
    /\ refs = InitRefs
    /\ globals = <<>>
    /\ num_globals = 1
    /\ entry_point = 1
    /\ stack_size = 2
    /\ return_value = DefaultValue
    /\ heap = <<>>
    /\ last = [op |-> "none"]
    /\ evals = 0
    /\ \E instructions \in Programs, size \in 0..2 : context = new(instructions, size)
    /\ overflow_checks \in BOOLEAN
    /\ history = <<context>>
ContextNext == Step
ContextSpec == ContextInit /\ [][ContextNext]_vars

----------------------------------------------------------------------------
(* Properties *)

LastEvent(log) == log[Len(log)]

\* C1 as stated: call(f, A) succeeds iff f.arg_count.valid_arg_count(|A|),
\* and otherwise returns IncorrectArgumentCount built from f's policy and |A|
\* (of the calls that return: a panic returns nothing)
C1_SucceedsIffValid ==
    (last.op = "call" /\ last.err \notin {Panic, Undefined}) =>
        /\ last.ok <=> valid_arg_count(last.input.func.arg_count, last.input.nargs)
        /\ ~valid_arg_count(last.input.func.arg_count, last.input.nargs) =>
              last.err = IncorrectArgumentCount(last.input.func.arg_count.min,
                                                last.input.func.arg_count.max,
                                                last.input.nargs)

\* C1 amended: call(f, A) passes the arity check and runs f's body iff
\* f.arg_count.valid_arg_count(|A|), and its result is then the body's result
\* (a value or the body's own error); otherwise it returns
\* IncorrectArgumentCount {min, max, |A|} and nothing has been evaluated
C1_ArityGate ==
    last.op = "call" =>
        IF valid_arg_count(last.input.func.arg_count, last.input.nargs)
        THEN /\ Len(last.log) >= 3
             /\ last.log[1].e = "call"
             /\ last.log[1].func = last.input.func
             /\ last.log[2].e = "enter"
             /\ LastEvent(last.log).e = "leave"
             /\ LastEvent(last.log).ok = last.ok
        ELSE /\ ~last.ok
             /\ last.err = IncorrectArgumentCount(last.input.func.arg_count.min,
                                                  last.input.func.arg_count.max,
                                                  last.input.nargs)
             /\ last.log = <<[e |-> "fault", err |-> last.err]>>

\* C1 witness: a call with too many arguments for a 1..2-argument function
\* has been rejected
C1_Rejected ==
    /\ last.op = "call"
    /\ last.input.func.arg_count = Variadic(1, 2)
    /\ last.input.nargs = 3
    /\ ~last.ok

\* the evaluation the last evaluate call made of its operand's operand:
\* e of ReturnTarget(t, Return(t', e)), from the same engine and frame
BodyOfReturn ==
    evaluate(last.input.expr.expr.expr, [last.input.st EXCEPT !.ub = last.ub],
             last.input.stack, last.input.captured)

IsTargetOfReturn ==
    /\ last.op = "evaluate"
    /\ last.input.expr.arm = "ReturnTarget"
    /\ last.input.expr.expr.arm = "Return"

\* C2: ReturnTarget(t, Return(t, e)) evaluates to the value of e, and
\* ReturnTarget(t, Return(t', e)) with t' # t fails with Return {target: t'}
\* (whenever e has a value)
C2_ReturnTargetMatching ==
    IsTargetOfReturn =>
        \A b \in {BodyOfReturn} :
            b.ok =>
                IF last.input.expr.target = last.input.expr.expr.target
                THEN last.ok /\ last.payload = Payload(b.st.heap, b.val)
                ELSE ~last.ok /\ last.err = ReturnErr(last.input.expr.expr.target)

\* C2 witness: a ReturnTarget has delivered the value a function call
\* computed as the body of the matching Return
C2_Delivered ==
    /\ IsTargetOfReturn
    /\ last.input.expr.target = last.input.expr.expr.target
    /\ last.input.expr.expr.expr.arm = "StaticFunctionCall"
    /\ last.ok
    /\ last.payload = IntV(99)

\* the position at which the Return raised at position i of log is
\* intercepted: the first later catch of its target, or the end of the log
CatchOf(log, i) ==
    IF \E j \in (i + 1)..Len(log) : log[j].e = "catch" /\ log[j].a = log[i].a
    THEN CHOOSE j \in (i + 1)..Len(log) :
            /\ log[j].e = "catch" /\ log[j].a = log[i].a
            /\ \A k \in (i + 1)..(j - 1) : ~(log[k].e = "catch" /\ log[k].a = log[i].a)
    ELSE Len(log) + 1

\* C3: between the raise of a Return(t, e) and its interception by a
\* ReturnTarget with id t the evaluator only leaves function bodies: nothing
\* is evaluated, applied, called or assigned, also across function calls;
\* and 1 + Return(1, 99) under target 1 yields 99 without applying the +
C3_NothingBetweenRaiseAndCatch ==
    last.op = "evaluate" =>
        /\ \A i \in 1..Len(last.log) :
              last.log[i].e = "raise" =>
                  \A k \in (i + 1)..(CatchOf(last.log, i) - 1) : last.log[k].e = "leave"
        /\ last.input.expr = StaticFunctionCall(InitRefs[2], <<>>) =>
              /\ last.ok /\ last.payload = IntV(99)
              /\ \A i \in 1..Len(last.log) : last.log[i].e # "apply_2"

\* C3 witness: a Return raised inside a called function has been caught by
\* the ReturnTarget of its caller, the callee left in between
C3_CaughtAcrossCall ==
    /\ last.op = "evaluate"
    /\ last.ok
    /\ \E i, j, k \in 1..Len(last.log) :
          /\ i < j /\ j < k
          /\ last.log[i].e = "raise"
          /\ last.log[j].e = "leave"
          /\ k = CatchOf(last.log, i)

\* the number of function bodies entered and not yet left before position i
RECURSIVE Depth(_, _)
Depth(log, i) ==
    IF i = 0 THEN 0
    ELSE Depth(log, i - 1) + (CASE log[i].e = "enter" -> 1
                                [] log[i].e = "leave" -> -1
                                [] OTHER -> 0)

\* C4: an IncorrectArgumentCount or InvalidInvocationTarget raised during a
\* run, at any call depth and inside any number of ReturnTargets, is caught
\* by nothing: it is the error run returns
C4_FaultsAreFatal ==
    last.op = "run" =>
        \A i \in 1..Len(last.log) :
            last.log[i].e = "fault" =>
                /\ last.log[i].err.k \in {"IncorrectArgumentCount", "InvalidInvocationTarget"}
                /\ ~last.ok
                /\ last.err = last.log[i].err

\* C4 witness: a run has returned the InvalidInvocationTarget raised two
\* calls deep
C4_DeepFault ==
    /\ last.op = "run"
    /\ \E i \in 1..Len(last.log) :
          /\ last.log[i].e = "fault"
          /\ last.log[i].err = InvalidInvocationTarget
          /\ Depth(last.log, i) = 2
    /\ last.err = InvalidInvocationTarget

\* C5: a Return whose target is the id of no ReturnTarget being evaluated
\* when it is raised escapes the entry function: run returns the error
\* Return {target}
C5_UnmatchedReturnEscapes ==
    last.op = "run" =>
        \A i \in 1..Len(last.log) :
            (last.log[i].e = "raise" /\ ~last.log[i].enclosed) =>
                ~last.ok /\ last.err = ReturnErr(last.log[i].a)

\* C5 witness: a run of the function returning to target 2, built with
\* target 1, has ended with Return {target: 2}
C5_Escaped ==
    /\ last.op = "run"
    /\ entry_point = 2
    /\ \E i \in 1..Len(last.log) :
          last.log[i].e = "raise" /\ last.log[i].a = 2 /\ ~last.log[i].enclosed
    /\ last.err = ReturnErr(2)

\* the registrations native functions made during the operation just done
NativeRegistrations ==
    IF last' # last THEN SelectSeq(last'.log, LAMBDA ev : ev.e = "register") ELSE <<>>

\* C6: every register_function call, by the embedder or by a native function
\* during an evaluation, returns the table length before the call as the
\* handle's location and appends exactly one function; the function at every
\* location issued before stays what it was
C6_FunctionIdsStable ==
    [][/\ Len(functions') >= Len(functions)
       /\ \A id \in 0..(Len(functions) - 1) :
             get_function(functions', id) = get_function(functions, id)
       /\ IF refs' # refs
          THEN /\ Len(refs') = Len(refs) + 1
               /\ refs'[Len(refs')].location = Len(functions)
               /\ Len(functions') = Len(functions) + 1
               /\ \A k \in 1..Len(refs) : refs'[k] = refs[k]
          ELSE /\ Len(functions') = Len(functions) + Len(NativeRegistrations)
               /\ \A k \in 1..Len(NativeRegistrations) :
                     /\ NativeRegistrations[k].a = Len(functions) + k - 1
                     /\ NativeRegistrations[k].n = NativeRegistrations[k].a
      ]_vars

\* C6 witness: a function registered by a native function during a run got
\* the next location and was called through the handle it returned
C6_RegisteredDuringRun ==
    /\ last.op = "run"
    /\ \E i \in 1..Len(last.log) :
          last.log[i].e = "register" /\ last.log[i].a = Len(InitFunctions)
    /\ Len(functions) = Len(InitFunctions) + 1
    /\ last.ok
    /\ last.payload = IntV(42)

\* C7 as stated: over create_global, run and call the number of global
\* slots never decreases, so an address create_global returned stays a valid
\* index of globals
C7_GlobalsGrowMonotonically ==
    [][Len(globals') >= Len(globals)]_vars

\* the cells the reference values of sequence s name
CellsOf(s) == {s[i].c : i \in {j \in 1..Len(s) : IsRef(s[j])}}

\* a sequence of n references to n cells of their own, all without value
\* and none of them among the first `old` cells
FreshUninit(s, payloads, n, old) ==
    /\ Len(s) = n
    /\ \A i \in 1..n : IsRef(s[i]) /\ s[i].c > old /\ payloads[i] = Null
    /\ Cardinality(CellsOf(s)) = n

\* C8: whatever happened before, the entry function of a run starts with
\* globals of exactly num_globals uninitialized slots, a frame of stack_size
\* uninitialized slots and an empty capture slice, none of them sharing a
\* cell with anything that existed before the run
C8_RunStartsClean ==
    last.op = "run" =>
        /\ last.log[1].e = "enter"
        /\ FreshUninit(last.log[1].globals, last.log[1].gpayloads, num_globals, last.heap0)
        /\ FreshUninit(last.log[1].stack, last.log[1].payloads, stack_size, last.heap0)
        /\ CellsOf(last.log[1].globals) \cap CellsOf(last.log[1].stack) = {}
        /\ last.log[1].captured = <<>>

\* C8 witness: a run has started while a global still held a value
\* assigned before it
C8_RunAfterAssignment ==
    /\ last.op = "run"
    /\ last.dirty
    /\ last.log[1].e = "enter"

IsAssignStack(ev) == ev.e = "assign" /\ ev.arm = "AssignStack"

CapturedFromStack(log, i, c) ==
    \E j \in 1..(i - 1) :
        /\ log[j].e = "capture"
        /\ \E k \in 1..Len(log[j].template) :
              log[j].template[k].kind = "Stack" /\ log[j].slice[k] = RefV(c)

ReadsAssignment(log, i, j) ==
    /\ log[i].e = "assign" /\ log[i].arm = "AssignDynamic" /\ log[i].c # 0
    /\ i < j
    /\ log[j].e = "observe" /\ log[j].c = log[i].c
    /\ \A k \in (i + 1)..(j - 1) : ~(log[k].e = "assign" /\ log[k].c = log[i].c)

\* C10: after AssignDynamic(H, W) through a handle H duped from slot S,
\* every later read of S, through a new handle or one duped from S before
\* the assignment, observes W
C10_AssignDynamicAliases ==
    last.op = "evaluate" =>
        \A i, j \in 1..Len(last.log) :
            ReadsAssignment(last.log, i, j) => last.log[j].p = last.log[i].p

\* C10 witness: a function called with one argument has assigned 7 through
\* a handle duped from its argument slot and then read 7 from that slot
C10_ArgumentSlotObserved ==
    /\ last.op = "evaluate"
    /\ last.input.expr = StaticFunctionCall(InitRefs[4], <<Stk(0)>>)
    /\ \E e, i, j \in 1..Len(last.log) :
          /\ e < i
          /\ last.log[e].e = "enter"
          /\ ReadsAssignment(last.log, i, j)
          /\ last.log[e].stack[1] = RefV(last.log[i].c)
          /\ last.log[j].p = IntV(7)
    /\ last.payload = IntV(12)

\* the payload last assigned to cell c between positions j and m of log,
\* or dflt when nothing was
LastAssigned(log, j, m, c, dflt) ==
    IF \E i \in (j + 1)..(m - 1) : log[i].e = "assign" /\ log[i].c = c
    THEN log[CHOOSE i \in (j + 1)..(m - 1) :
                /\ log[i].e = "assign" /\ log[i].c = c
                /\ \A k \in (i + 1)..(m - 1) : ~(log[k].e = "assign" /\ log[k].c = c)].p
    ELSE dflt

\* position m of log enters a closure whose slice the FunctionCapture at
\* position j built
EntersClosureOf(log, j, m) ==
    /\ j < m
    /\ log[j].e = "capture"
    /\ log[m].e = "enter"
    /\ log[m].captured = log[j].slice

\* C11: a closure called after its FunctionCapture finds in the Captured
\* slot of a captured Stack slot what was last assigned through the slot's
\* reference (AssignStack or AssignDynamic), also when the capturing frame
\* has returned; where the slot held a raw value, the closure finds the
\* value captured, whatever replaced the slot since
C11_CaptureSharesSlot ==
    last.op = "evaluate" =>
        /\ last.input.expr = SnapshotRaw =>
              last.payload = ListV(<<Null, Null, IntV(3), IntV(8)>>)
        /\ \A j, m \in 1..Len(last.log) :
            EntersClosureOf(last.log, j, m) =>
                \A k \in 1..Len(last.log[j].slice) :
                    last.log[j].template[k].kind = "Stack" =>
                        last.log[m].cpayloads[k] =
                            IF IsRef(last.log[j].slots[k])
                            THEN LastAssigned(last.log, j, m, last.log[j].slots[k].c,
                                              last.log[j].payloads[k])
                            ELSE last.log[j].slots[k]

\* C11 witness: the closure a function built over its slot 0 and returned
\* was called after the function had reassigned the slot and returned, and
\* found the reassigned value
C11_ObservedAfterReturn ==
    /\ last.op = "evaluate"
    /\ last.ok
    /\ last.payload = IntV(8)
    /\ \E j, l, m \in 1..Len(last.log) :
          /\ j < l /\ l < m
          /\ last.log[l].e = "leave"
          /\ Depth(last.log, l) = 0
          /\ EntersClosureOf(last.log, j, m)
          /\ last.log[m].cpayloads = <<IntV(8)>>
          /\ last.log[j].payloads = <<IntV(7)>>

\* position i of log is a call that passed the arity check of a
\* fixed-arity function
IsFixedCall(log, i) ==
    /\ log[i].e = "call"
    /\ log[i].func.arg_count.k = "Fixed"

\* C12: the frame a fixed-arity function with n parameters and v local
\* variables is entered with has n + v slots: the arguments in their order,
\* then default-uninitialized slots of their own; its capture slice is the
\* handle's slice for a CapturingRef and empty otherwise
C12_FrameLayout ==
    last.op = "evaluate" =>
        \A i \in 1..(Len(last.log) - 1) :
            IsFixedCall(last.log, i) =>
                /\ last.log[i + 1].e = "enter"
                /\ Len(last.log[i + 1].stack) =
                      last.log[i].func.arg_count.max + last.log[i].func.variable_count
                /\ \A k \in 1..Len(last.log[i].args) :
                      last.log[i + 1].stack[k] = last.log[i].args[k]
                /\ \A k \in (Len(last.log[i].args) + 1)..Len(last.log[i + 1].stack) :
                      /\ IsRef(last.log[i + 1].stack[k])
                      /\ last.log[i + 1].payloads[k] = Null
                      /\ \A l \in 1..Len(last.log[i + 1].stack) :
                            l # k => last.log[i + 1].stack[l] # last.log[i + 1].stack[k]
                /\ last.log[i + 1].captured =
                      IF last.log[i].func.function_type.k = "CapturingRef"
                      THEN last.log[i].func.function_type.caps
                      ELSE <<>>

\* C12 witness: the one-parameter function with one local variable was
\* entered with its argument (holding 5) and one more slot
C12_ArgumentThenLocal ==
    /\ last.op = "evaluate"
    /\ \E i \in 1..(Len(last.log) - 1) :
          /\ IsFixedCall(last.log, i)
          /\ last.log[i].func.location = 3
          /\ Len(last.log[i].args) = 1
          /\ last.log[i + 1].e = "enter"
          /\ Len(last.log[i + 1].stack) = 2
          /\ last.log[i + 1].payloads[1] = IntV(5)

\* the last evaluate call was of a DynamicFunctionCall; its target
\* evaluated on its own from the same engine and frame
IsDynamicCall == last.op = "evaluate" /\ last.input.expr.arm = "DynamicFunctionCall"
DynamicTarget ==
    evaluate(last.input.expr.func, [last.input.st EXCEPT !.ub = last.ub],
             last.input.stack, last.input.captured)

\* sequence s without its element at position i
Without(s, i) == SubSeq(s, 1, i - 1) \o SubSeq(s, i + 1, Len(s))

\* C13: DynamicFunctionCall evaluates its target first; a target that is no
\* function ends it with InvalidInvocationTarget, no argument evaluated and
\* nothing called; otherwise it does what StaticFunctionCall does on the
\* FunctionRef obtained: same evaluation, same result
C13_DynamicCall ==
    IsDynamicCall =>
        \A t \in {DynamicTarget} :
            t.ok =>
                IF ~IsFunction(t.st.heap, t.val)
                THEN /\ ~last.ok
                     /\ last.err = InvalidInvocationTarget
                     /\ last.log = <<[e |-> "eval", arm |-> "DynamicFunctionCall"]>>
                                   \o t.st.log
                                   \o <<[e |-> "fault", err |-> InvalidInvocationTarget]>>
                ELSE \A s \in {evaluate(StaticFunctionCall(cast_to_function(t.st.heap, t.val),
                                                           last.input.expr.args),
                                        t.st, t.stack, last.input.captured)} :
                        /\ last.ok = s.ok
                        /\ last.err = s.err
                        /\ s.ok => last.payload = Payload(s.st.heap, s.val)
                        /\ last.log = <<[e |-> "eval", arm |-> "DynamicFunctionCall"]>>
                                      \o Without(s.st.log, Len(t.st.log) + 1)

\* C13 witness: a dynamic call of a value that is no function has failed
\* with InvalidInvocationTarget, its argument (an assignment) not evaluated
C13_TargetRejected ==
    /\ IsDynamicCall
    /\ last.input.expr = DynamicFunctionCall(Stk(0), <<AssignStack(1, Lit(2))>>)
    /\ last.err = InvalidInvocationTarget
    /\ \A i \in 1..Len(last.log) : last.log[i].e # "assign"

IsFunctionCapture == last.op = "evaluate" /\ last.input.expr.arm = "FunctionCapture"

\* the value of the variable v in the engine and frame evaluate was handed
InputSlot(v) ==
    Slots(v, last.input.st, last.input.stack, last.input.captured)[v.addr + 1]

\* the events of log that are captures
CaptureEvents(log) == SelectSeq(log, LAMBDA ev : ev.e = "capture")

\* C14: FunctionCapture of a Static or CapturingRef handle fails with
\* InvalidInvocationTarget and reads no variable; of a CapturingDef it yields
\* the handle with the same location, arg_count, stack_size and
\* variable_count as a CapturingRef holding, in template order, a handle
\* duped from each variable; the expression can be evaluated again
C14_FunctionCapture ==
    /\ IsFunctionCapture =>
          IF last.input.expr.func.function_type.k # "CapturingDef"
          THEN /\ ~last.ok
               /\ last.err = InvalidInvocationTarget
               /\ last.log = <<[e |-> "eval", arm |-> "FunctionCapture"],
                               [e |-> "fault", err |-> InvalidInvocationTarget]>>
          ELSE /\ last.ok
               /\ last.payload.k = "fn"
               /\ \A f \in {last.input.expr.func}, g \in {last.payload.f} :
                     /\ g.location = f.location
                     /\ g.arg_count = f.arg_count
                     /\ g.stack_size = f.stack_size
                     /\ g.variable_count = f.variable_count
                     /\ g.function_type.k = "CapturingRef"
                     /\ Len(g.function_type.caps) = Len(f.function_type.vars)
                     /\ \A k \in 1..Len(f.function_type.vars) :
                           /\ last.log[2].slice[k] = InputSlot(f.function_type.vars[k])
                           /\ Payload(heap, g.function_type.caps[k]) =
                                 Payload(last.input.st.heap, InputSlot(f.function_type.vars[k]))
    /\ (last.op = "evaluate" /\ last.input.expr = CaptureTwice) =>
          /\ last.ok
          /\ Len(CaptureEvents(last.log)) = 2
          /\ CaptureEvents(last.log)[1].slice = CaptureEvents(last.log)[2].slice

\* C14 witness: a FunctionCapture over four variables of the frame, the
\* globals and the capture slice has built its closure
C14_CapturedFour ==
    /\ IsFunctionCapture
    /\ last.ok
    /\ last.payload.k = "fn"
    /\ Len(last.payload.f.function_type.caps) = 4
    /\ [k \in 1..4 |-> Payload(heap, last.payload.f.function_type.caps[k])]
          = <<IntV(6), Null, IntV(9), IntV(3)>>

Operands(expr) == IF expr.arm = "BinaryOpEval" THEN <<expr.l, expr.r>> ELSE expr.args
IsOrdered == last.op = "evaluate" /\ last.input.expr \in Orders
IsMark(x) == x.arm = "AssignGlobal"
\* the operand on its own, from the state the expression started in
Alone(x) == evaluate(x, last.input.st, last.input.stack, last.input.captured)
Fails(x) == ~IsMark(x) /\ ~Alone(x).ok
FirstFailure(ops) ==
    IF \E i \in 1..Len(ops) : Fails(ops[i])
    THEN CHOOSE i \in 1..Len(ops) :
            Fails(ops[i]) /\ \A j \in 1..(i - 1) : ~Fails(ops[j])
    ELSE 0
\* the marks the operands ops[1..n] leave, in operand order
RECURSIVE MarksOf(_, _)
MarksOf(ops, n) ==
    IF n = 0 THEN <<>>
    ELSE IF IsMark(ops[n]) THEN Append(MarksOf(ops, n - 1), ops[n].expr.v)
    ELSE MarksOf(ops, n - 1)
IsMarkEvent(ev) == ev.e = "assign" /\ ev.arm = "AssignGlobal"
\* the marks the log shows, in the order they were made
RECURSIVE MarksIn(_, _)
MarksIn(log, n) ==
    IF n = 0 THEN <<>>
    ELSE IF IsMarkEvent(log[n]) THEN Append(MarksIn(log, n - 1), log[n].p)
    ELSE MarksIn(log, n - 1)
Invocations == {"apply_2", "call", "native", "initialize"}

\* C15: the operands of BinaryOpEval and the arguments of StaticFunctionCall,
\* DynamicFunctionCall, NativeFunctionCall and Initialize are evaluated
\* left to right; when one fails nothing is evaluated after it, the operator,
\* callee, host function or initializer is not invoked, its failure is the
\* expression's result, and what the earlier operands assigned stays assigned
C15_LeftToRightAbort ==
    IsOrdered =>
       \A ops \in {Operands(last.input.expr)} :
       \A i \in {FirstFailure(ops)} :
          IF i = 0
          THEN /\ last.ok
               /\ MarksIn(last.log, Len(last.log)) = MarksOf(ops, Len(ops))
               /\ \E j \in 1..Len(last.log) :
                     /\ last.log[j].e \in Invocations
                     /\ \A k \in j..Len(last.log) : ~IsMarkEvent(last.log[k])
          ELSE \A f \in {Alone(ops[i])} :
               \A n \in {Len(last.log) - Len(f.st.log)} :
                  /\ ~last.ok
                  /\ last.err = f.err
                  /\ n >= 1
                  /\ SubSeq(last.log, n + 1, Len(last.log)) = f.st.log
                  /\ MarksIn(last.log, n) = MarksOf(ops, i - 1)
                  /\ MarksIn(last.log, Len(last.log)) = MarksOf(ops, i - 1)
                  /\ \A j \in 1..n : last.log[j].e \notin Invocations
                  /\ MarksOf(ops, i - 1) # <<>> =>
                        Payload(heap, globals[1]) =
                           MarksOf(ops, i - 1)[Len(MarksOf(ops, i - 1))]

\* C15 witness: an operand failed after an earlier one had assigned a global
\* and before a later one that would have assigned it again
C15_FailedInTheMiddle ==
    /\ IsOrdered
    /\ ~last.ok
    /\ \E i \in {FirstFailure(Operands(last.input.expr))} :
          /\ i > 1
          /\ \E j \in (i + 1)..Len(Operands(last.input.expr)) :
                IsMark(Operands(last.input.expr)[j])
          /\ MarksOf(Operands(last.input.expr), i - 1) # <<>>
    /\ Payload(heap, globals[1]) = IntV(1)

\* the Return whose signal the catch at position j of log intercepts: the
\* last raise before it
RaiseOf(log, j) ==
    CHOOSE i \in 1..(j - 1) :
        /\ log[i].e = "raise"
        /\ \A k \in (i + 1)..(j - 1) : log[k].e # "raise"

\* C16: what a ReturnTarget(t) delivers when it intercepts is the value of
\* the body of the Return(t) that raised the signal, also when function calls
\* in that body or before it completed Return / ReturnTarget pairs of their
\* own: the slot holds the body's value at the raise and still at the catch
C16_DeliversRaisedValue ==
    last.op = "evaluate" =>
       /\ \A j \in 1..Len(last.log) :
             last.log[j].e = "catch" =>
                /\ \E i \in 1..(j - 1) : last.log[i].e = "raise"
                /\ \A i \in {RaiseOf(last.log, j)} :
                      /\ last.log[i].a = last.log[j].a
                      /\ last.log[i].slot = last.log[i].p
                      /\ last.log[j].p = last.log[i].p
                      /\ \A k \in (i + 1)..(j - 1) : last.log[k].e = "leave"
       /\ (last.input.expr.arm = "ReturnTarget" /\ LastEvent(last.log).e = "catch") =>
             last.ok /\ last.payload = LastEvent(last.log).p
       /\ last.input.expr = ReturnTarget(2, Return(2, BinaryOpEval("+",
             StaticFunctionCall(InitRefs[2], <<>>), Lit(1)))) =>
             last.ok /\ last.payload = IntV(100)

\* C16 witness: a ReturnTarget has delivered the value of a Return whose body
\* called a function that had delivered another value through the same slot
C16_InnerPairCompleted ==
    /\ last.op = "evaluate"
    /\ last.input.expr.arm = "ReturnTarget"
    /\ last.ok
    /\ \E i, j \in 1..Len(last.log) :
          /\ i < j /\ j < Len(last.log)
          /\ last.log[i].e = "catch"
          /\ last.log[j].e = "raise"
          /\ last.log[j].p # last.log[i].p
          /\ last.payload = last.log[j].p

\* the positions of log at which a Return raised
Raises(log) == {i \in 1..Len(log) : log[i].e = "raise"}
Last(S) == CHOOSE i \in S : \A j \in S : j <= i

\* C17 as stated: evaluating an expression tree never writes or reads
\* engine.return_value
C17_NeverTouchesReturnValue ==
    last.op = "evaluate" =>
       /\ last.rv = last.rv0
       /\ \A j \in 1..Len(last.log) : last.log[j].e # "catch"

\* C17: evaluating an expression tree writes engine.return_value only in the
\* Return arm, with the value of the Return's body, and reads it only when a
\* ReturnTarget intercepts a Return of its target; an evaluation in which no
\* Return raises leaves the slot as it was
C17_WrittenOnlyByReturn ==
    last.op = "evaluate" =>
       /\ last.rv = IF Raises(last.log) = {} THEN last.rv0
                    ELSE last.log[Last(Raises(last.log))].v
       /\ \A j \in 1..Len(last.log) :
             last.log[j].e = "catch" =>
                \E i \in Raises(last.log) : i < j /\ last.log[i].a = last.log[j].a

\* C17 witness: an evaluation has written the slot in a Return and read it
\* back in the ReturnTarget that intercepted
C17_SlotWrittenAndRead ==
    /\ last.op = "evaluate"
    /\ last.ok
    /\ last.rv # last.rv0
    /\ Raises(last.log) # {}
    /\ LastEvent(last.log).e = "catch"
    /\ last.val = return_value

IsReturn == last.op = "evaluate" /\ last.input.expr.arm = "Return"
\* the body of the Return on its own, from the state the Return started in
BodyAlone ==
    evaluate(last.input.expr.expr, [last.input.st EXCEPT !.ub = last.ub],
             last.input.stack, last.input.captured)

\* C18: when the body of Return(t, body) fails with an error E, Return(t,
\* body) fails with E, raises no Return {target: t} of its own and leaves
\* engine.return_value as the failing body left it
C18_FailedBodyPropagates ==
    IsReturn =>
       \A b \in {BodyAlone} :
          ~b.ok =>
             /\ ~last.ok
             /\ last.err = b.err
             /\ last.log = <<[e |-> "eval", arm |-> "Return"]>> \o b.st.log
             /\ last.rv = b.st.return_value

\* C18 witness: the body of a Return failed with a host error after a call
\* in it had written engine.return_value
C18_BodyFailedAfterWrite ==
    /\ IsReturn
    /\ ~last.ok
    /\ last.err = HostError
    /\ last.rv # last.rv0
    /\ Payload(heap, return_value) = IntV(99)

\* the instruction the k-th iteration of run executed, the context it
\* started in and the one it left
Executed(k) == history[k].instructions[history[k].instruction + 1]
Completed(k) == history[k + 1].panic = "none"
IsReturning(k) == Executed(k).op \in {"Return", "ReturnConstant"}
\* iteration j returns from the call iteration i made
Matches(i, j) ==
    /\ i < j
    /\ Executed(i).op = "Invoke" /\ Completed(i)
    /\ IsReturning(j) /\ Completed(j)
    /\ Len(history[j + 1].frames) = Len(history[i].frames)
    /\ \A m \in (i + 1)..j : Len(history[m].frames) > Len(history[i].frames)

\* C19: an Invoke(args, stack_size, target) that completes saves the frame
\* base on frames, lowers it by args and pushes stack_size - args default
\* slots; a Return or ReturnConstant that completes sets return_value and
\* restores the base saved last, so after a balanced Invoke ... Return the
\* base is what it was before the Invoke; the value stack never shrinks and
\* the instruction pointer goes on after the Return, not after the Invoke
C19_FramesBalanced ==
    /\ \A k \in 1..(Len(history) - 1) :
       \A a \in {history[k]}, b \in {history[k + 1]}, ins \in {Executed(k)} :
          /\ Len(b.stack) >= Len(a.stack)
          /\ (Completed(k) /\ ins.op = "Invoke") =>
                /\ b.frames = Append(a.frames, a.frame)
                /\ b.frame = a.frame - ins.args
                /\ b.stack = a.stack \o [i \in 1..(ins.stack_size - ins.args) |-> DefaultValue]
          /\ (Completed(k) /\ IsReturning(k)) =>
                /\ a.frames # <<>>
                /\ b.frame = a.frames[Len(a.frames)]
                /\ b.frames = SubSeq(a.frames, 1, Len(a.frames) - 1)
                /\ b.return_value = IF ins.op = "ReturnConstant" THEN ins.c
                                    ELSE a.stack[a.frame + ins.offset + 1]
                /\ b.stack = a.stack
                /\ b.instruction = a.instruction + 1
    /\ \A i, j \in 1..(Len(history) - 1) :
          Matches(i, j) => history[j + 1].frame = history[i].frame

\* C19 witness: a call with an argument has returned inside another call:
\* the base is back, the callee's slots are still on the stack
C19_ReturnedFromCallWithArgument ==
    \E i, j \in 1..(Len(history) - 1) :
       /\ Matches(i, j)
       /\ Executed(i).args > 0
       /\ history[i].frames # <<>>
       /\ history[j + 1].frame = history[i].frame
       /\ Len(history[j + 1].stack) > Len(history[i].stack)
       /\ history[j + 1].instruction # history[i].instruction + 1

\* C20: every state run reaches from new(instructions, stack_size) is free of
\* faults: no slot access outside the value stack, no Invoke lowering the
\* base below zero or by more than stack_size, no Return or ReturnConstant
\* with an empty frames stack
C20_FaultFree ==
    /\ context.panic = "none"
    /\ context.frame >= 0

====
